---- MODULE Spec2Model ----
(***************************************************************************)
(* Verification model of the ingestion pipeline: the bulk ingestion fast   *)
(* path, the transactional outbox dispatcher (outbox_publisher.run_worker  *)
(* over MessageRepository), the online HTTP path and the ingestor          *)
(* consumer, with the MessageProcessing status they all write.             *)
(*                                                                         *)
(* Tables are functions from the row key to the row; a row that does not   *)
(* exist is not in the domain.  Timestamps are whole seconds measured from *)
(* the current instant: the clock app_now() is the origin, and when d      *)
(* seconds pass every stored timestamp moves d seconds into the past.  A   *)
(* timestamp is kept only as far back as the code's comparisons can tell   *)
(* it apart.  A nullable timestamp column holds NoTime for SQL NULL, a     *)
(* nullable string column holds NoValue.                                   *)
(***************************************************************************)
EXTENDS Integers, Sequences, FiniteSets, TLC

\* ------------------------------------------------------------------ bounds
MaxClaims == 2            \* claim transactions the dispatchers start
MaxPastAttempts == 3      \* failed attempts the oldest row may start with
MaxCrashes == 1           \* dispatcher process restarts
outbox_batch_size == 1    \* settings.outbox_batch_size, chosen small
MaxItems == 2             \* items in one fast-path batch
MaxMessages == 6          \* messages in one call of analyze_messages
WideBatchSize == 2        \* settings.outbox_batch_size of the wide dispatchers
BATCH_LIMIT == 1000       \* validate_batch_payload: items above it are refused

\* ------------------------------------------------------- program constants
outbox_lock_timeout_seconds == 30
HTTP_AUDIT_EVENT_TYPE == "http_audit_log"
MESSAGE_RECEIVED == "message_received"
PROCESSING_STATUS_RECEIVED == "received"
PROCESSING_STATUS_QUEUED == "queued"
PROCESSING_STATUS_PROCESSING == "processing"
PROCESSING_STATUS_PROCESSED == "processed"
PROCESSING_STATUS_FAILED == "failed"
_AUDIT_ANCHOR_CORRELATION_ID == "audit-log-anchor-correlation-id"

Max2(a, b) == IF a >= b THEN a ELSE b
Min2(a, b) == IF a <= b THEN a ELSE b

Workers == {"w1", "w2"}           \* dispatcher instances (outbox_worker_id)
Requests == {"r1", "r2"}          \* concurrent fast-path requests
Correlations == {"c1", "c2", "c3"}   \* correlation ids clients send
InitialEvents == {1, 2}           \* outbox rows committed before the start
FirstEvent == CHOOSE e \in InitialEvents : \A x \in InitialEvents : e <= x
app_now == 0
LockTimeout == Max2(1, outbox_lock_timeout_seconds)
Oldest == 0 - (LockTimeout + 1)   \* a lock this old has expired for good
NoTime == Oldest - 1
NoValue == "none"
EventTypes == {MESSAGE_RECEIVED, HTTP_AUDIT_EVENT_TYPE}

Range(s) == {s[i] : i \in 1..Len(s)}
Ids(s) == {s[i].id : i \in 1..Len(s)}

VARIABLES
    settings,             \* the flags get_settings() returns, fixed at start
    for_update,           \* whether the dialect renders FOR UPDATE SKIP LOCKED
    users,                \* table users: the external_user_key of each row
    messages,             \* table messages: id -> correlation_id
    processing,           \* table message_processing: message_id -> row
    outputs,              \* the output tables: message_id -> its rows
    search_index,         \* the documents the search index holds
    outbox,               \* table outbox_events: id -> row
    requests,             \* each fast-path request: position and open transaction
    pc,                   \* where each dispatcher is in run_worker
    events,               \* run_worker's events still waiting for their status
    succeeded_ids,        \* run_worker's succeeded_ids of the audit path
    failed_by_id,         \* run_worker's failed_by_id: the ids reported failed
    published,            \* run_worker's published of the current event
    broker,               \* envelopes in the analyze queue, oldest first
    consumer,             \* the ingestor consumer: position and delivery
    http,                 \* the online analyze-feed request
    claims,               \* claim transactions started so far
    crashes,              \* dispatcher restarts so far
    analysis              \* a caller of analyze_messages: input, clock, results

vars == <<settings, for_update, users, messages, processing, outputs,
          search_index, outbox, requests, pc,
          events, succeeded_ids, failed_by_id, published, broker, consumer,
          http, claims, crashes, analysis>>

Events == DOMAIN outbox

\* Audit rows hang off the anchor message, which has no message_processing
\* row; the online request's message gets an id of its own.
AnchorMessage == 0
OnlineMessage == 3
MessageOf(e, event_type) ==
    IF event_type = HTTP_AUDIT_EVENT_TYPE THEN AnchorMessage ELSE e

\* The correlation id stored with the messages that exist at the start.
CorrelationOf(m) ==
    IF m = AnchorMessage THEN _AUDIT_ANCHOR_CORRELATION_ID
    ELSE IF m = FirstEvent THEN "c1" ELSE "c2"

\* The user_id the item (or request) with correlation id c carries.
_AUDIT_ANCHOR_USER_KEY == "audit_log_system_user"
UserKeyOf(c) ==
    IF c = _AUDIT_ANCHOR_CORRELATION_ID THEN _AUDIT_ANCHOR_USER_KEY
    ELSE IF c = "c3" THEN "user_b" ELSE "user_a"

\* Adding rows to a table.
Inserted(table, rows) ==
    [k \in DOMAIN table \cup DOMAIN rows |->
        IF k \in DOMAIN rows THEN rows[k] ELSE table[k]]

\* ------------------------------------------------ outbox_publisher helpers
_compute_backoff_seconds(attempts) ==
    IF attempts <= 1 THEN 1
    ELSE IF attempts = 2 THEN 5
    ELSE IF attempts = 3 THEN 15
    ELSE 60

\* ------------------------------------------------ MessageRepository
\* ClaimWhere without the lock condition: a faulty variant, to see that C4
\* tells it apart.
ClaimWhere_IgnoringLocks(row, now_arg, lock_cutoff_utc, event_types) ==
    /\ row.status \in {"pending", "failed"}
    /\ row.available_at_utc <= now_arg
    /\ (event_types # {} => row.event_type \in event_types)

\* The WHERE clause of claim_outbox_events.
ClaimWhere(row, now_arg, lock_cutoff_utc, event_types) ==
    /\ row.status \in {"pending", "failed"}
    /\ row.available_at_utc <= now_arg
    /\ (row.locked_at_utc = NoTime \/ row.locked_at_utc < lock_cutoff_utc)
    /\ (event_types # {} => row.event_type \in event_types)

\* Rows under another transaction's FOR UPDATE lock (held from the claim's
\* SELECT to its commit), when the dialect takes such locks.
RowLockedByOther(e, w) ==
    /\ for_update
    /\ \E v \in Workers \ {w} : pc[v] = "claiming" /\ e \in Ids(events[v])

Eligible(w, now_arg, lock_cutoff_utc, event_types) ==
    {e \in Events :
        /\ ClaimWhere(outbox[e], now_arg, lock_cutoff_utc, event_types)
        /\ ~RowLockedByOther(e, w)}

\* ClaimResults without the ORDER BY: a faulty variant, to see that C26
\* tells it apart.
ClaimResults_AnyOrder(w, now_arg, lock_cutoff_utc, limit, event_types) ==
    LET el == Eligible(w, now_arg, lock_cutoff_utc, event_types)
        n == Min2(limit, Cardinality(el))
    IN {s \in [1..n -> el] : \A i, j \in 1..n : i # j => s[i] # s[j]}

\* ORDER BY created_at_utc ASC LIMIT limit: every sequence the database may
\* return (rows of equal created_at_utc come in any order).
ClaimResults(w, now_arg, lock_cutoff_utc, limit, event_types) ==
    LET el == Eligible(w, now_arg, lock_cutoff_utc, event_types)
        n == Min2(limit, Cardinality(el))
    IN {s \in [1..n -> el] :
          /\ \A i, j \in 1..n : i # j => s[i] # s[j]
          /\ \A i, j \in 1..n :
                i < j => outbox[s[i]].created_at_utc <= outbox[s[j]].created_at_utc
          /\ \A r \in el \ {s[i] : i \in 1..n} : \A i \in 1..n :
                outbox[s[i]].created_at_utc <= outbox[r].created_at_utc}

\* The in-memory row after the loop of claim_outbox_events has set
\* locked_at_utc, locked_by and attempts on it.
ClaimedRow(e, w, now_arg) ==
    [id |-> e,
     event_type |-> outbox[e].event_type,
     message_id |-> outbox[e].message_id,
     attempts |-> outbox[e].attempts + 1,
     locked_at_utc |-> now_arg,
     locked_by |-> w]

claim_outbox_events(w, now_arg, lock_cutoff_utc, limit, event_types) ==
    {[i \in 1..Len(s) |-> ClaimedRow(s[i], w, now_arg)] :
        s \in ClaimResults(w, now_arg, lock_cutoff_utc, limit, event_types)}

\* The UPDATE the session flushes for a claimed row: only the changed columns.
FlushClaim(table, rows) ==
    [e \in DOMAIN table |->
        IF e \in Ids(rows)
        THEN LET r == CHOOSE x \in Range(rows) : x.id = e
             IN [table[e] EXCEPT !.locked_at_utc = r.locked_at_utc,
                                 !.locked_by = r.locked_by,
                                 !.attempts = r.attempts]
        ELSE table[e]]

mark_outbox_published(table, e) ==
    [table EXCEPT ![e] = [@ EXCEPT !.status = "published",
                                   !.last_error = NoValue,
                                   !.locked_at_utc = NoTime,
                                   !.locked_by = NoValue]]

\* mark_outbox_failed that leaves the lock columns as they are: a faulty
\* variant, to see that C27 tells it apart.
mark_outbox_failed_KeepingLock(table, e, available_at_utc, last_error) ==
    [table EXCEPT ![e] = [@ EXCEPT !.status = "failed",
                                   !.last_error = last_error,
                                   !.available_at_utc = available_at_utc]]

mark_outbox_failed(table, e, available_at_utc, last_error) ==
    [table EXCEPT ![e] = [@ EXCEPT !.status = "failed",
                                   !.last_error = last_error,
                                   !.available_at_utc = available_at_utc,
                                   !.locked_at_utc = NoTime,
                                   !.locked_by = NoValue]]

\* update_processing that writes null into every column the call does not
\* pass: a faulty variant, to see that C32 tells it apart.
update_processing_AllColumns(table, m, passed) ==
    IF m \in DOMAIN table
    THEN [table EXCEPT ![m] =
            [column \in DOMAIN table[m] |->
                IF column \in DOMAIN passed THEN passed[column]
                ELSE NoValue]]
    ELSE table

\* update_processing: no row, no change.  `passed` holds the keyword
\* arguments of the call; an argument left at _UNSET is not in it, and its
\* column keeps its value.  processing_success is True, False or None,
\* written "True", "False" and NoValue; None is NoValue in every column.
\* updated_at_utc is not kept in the rows.
update_processing(table, m, passed) ==
    IF m \in DOMAIN table
    THEN [table EXCEPT ![m] =
            [column \in DOMAIN table[m] |->
                IF column \in DOMAIN passed THEN passed[column]
                ELSE table[m][column]]]
    ELSE table

\* ------------------------------------------------ MessagePersistenceService
\* The queue_messaging text run_worker and the analyze-feed route store.
queue_of_analyze == "queue=mbras.analyze.queue"

\* settings.elasticsearch_index_prefix, the alias of the daily indices.
elasticsearch_index_prefix == "projetombras-api-events"

\* The normalized payload of an envelope.  `of` names the analysis it
\* carries: the sentiment distribution, the flags, the anomaly and the
\* engagement score are that analysis's.  The trending topics are a list
\* that repeats a name, the influence ranking a list with an item that has
\* no user_id.
_normalized_payload_from_event(of) ==
    [sentiment_distribution |-> of,
     flags |-> of,
     anomaly_type |-> of,
     engagement_score |-> of,
     trending_topics |-> <<"t2", "t1", "t2">>,
     influence_ranking |-> <<"u1", "", "u1">>]

\* persist_normalized_outputs that inserts the influence items without the
\* delete before them: a faulty variant, to see that C39 tells it apart.
persist_normalized_outputs_Appending(table, ids, message_id, payload) ==
    IF message_id \notin ids THEN table
    ELSE LET current == IF message_id \in DOMAIN table THEN table[message_id]
                        ELSE [engagement_score |-> NoValue, sentiment |-> <<>>,
                              flags |-> <<>>, anomaly |-> <<>>,
                              influence |-> <<>>, topics |-> {}]
             upsert(rows, value) ==
                IF rows = <<>> THEN <<value>> ELSE [rows EXCEPT ![1] = value]
         IN Inserted(table, [k \in {message_id} |->
               [engagement_score |-> payload.engagement_score,
                sentiment |-> upsert(current.sentiment, payload.sentiment_distribution),
                flags |-> upsert(current.flags, payload.flags),
                anomaly |-> upsert(current.anomaly, payload.anomaly_type),
                influence |-> current.influence \o
                    SelectSeq(payload.influence_ranking, LAMBDA u : u # ""),
                topics |-> {t \in Range(payload.trending_topics) : t # ""}]])

\* persist_normalized_outputs: nothing for a message_id without a Message
\* row.  The rows of one message in each output table: the one row of
\* sentiment, of flags and of anomaly is created or updated in place; the
\* influence items are deleted and inserted again, one per item that has a
\* user_id; the topic links are deleted and one link per distinct name is
\* inserted.  All in one commit.
persist_normalized_outputs(table, ids, message_id, payload) ==
    IF message_id \notin ids THEN table
    ELSE LET current == IF message_id \in DOMAIN table THEN table[message_id]
                        ELSE [engagement_score |-> NoValue, sentiment |-> <<>>,
                              flags |-> <<>>, anomaly |-> <<>>,
                              influence |-> <<>>, topics |-> {}]
             upsert(rows, value) ==
                IF rows = <<>> THEN <<value>> ELSE [rows EXCEPT ![1] = value]
         IN Inserted(table, [k \in {message_id} |->
               [engagement_score |-> payload.engagement_score,
                sentiment |-> upsert(current.sentiment, payload.sentiment_distribution),
                flags |-> upsert(current.flags, payload.flags),
                anomaly |-> upsert(current.anomaly, payload.anomaly_type),
                influence |->
                    SelectSeq(payload.influence_ranking, LAMBDA u : u # ""),
                topics |-> {t \in Range(payload.trending_topics) : t # ""}]])

\* _build_elastic_document: the index of the day of the envelope's
\* timestamp and the document, which carries the envelope's correlationId
\* and messageId and the normalized payload.
_build_elastic_document(correlationId, messageId, payload) ==
    [index_name |-> elasticsearch_index_prefix \o "-day",
     document |-> [correlationId |-> correlationId,
                   messageId |-> messageId,
                   analysis |-> payload.sentiment_distribution]]

mark_queued(table, m, queue_messaging) ==
    update_processing(table, m,
        [processing_success |-> NoValue,
         processing_status |-> PROCESSING_STATUS_QUEUED,
         queue_messaging |-> queue_messaging,
         failure_stage |-> NoValue,
         failed_reason |-> NoValue])
mark_publish_failed(table, m) ==
    update_processing(table, m,
        [processing_success |-> "False",
         processing_status |-> PROCESSING_STATUS_FAILED,
         failure_stage |-> "rabbit",
         failed_reason |-> "reason"])
mark_processing(table, m) ==
    update_processing(table, m,
        [processing_success |-> NoValue,
         processing_status |-> PROCESSING_STATUS_PROCESSING,
         failure_stage |-> NoValue,
         failed_reason |-> NoValue])
mark_processed(table, m, elastic_name, elastic_index_name) ==
    update_processing(table, m,
        [processing_success |-> "True",
         processing_status |-> PROCESSING_STATUS_PROCESSED,
         failure_stage |-> NoValue,
         failed_reason |-> NoValue,
         elastic_name |-> elastic_name,
         elastic_index_name |-> elastic_index_name])
\* mark_processing_failed that leaves processing_success and failure_stage
\* empty: a faulty variant, to see that C16 tells it apart.
mark_processing_failed_StatusOnly(table, m, failure_stage) ==
    update_processing(table, m,
        [processing_success |-> NoValue,
         processing_status |-> PROCESSING_STATUS_FAILED,
         failure_stage |-> NoValue,
         failed_reason |-> NoValue])

mark_processing_failed(table, m, failure_stage) ==
    update_processing(table, m,
        [processing_success |-> "False",
         processing_status |-> PROCESSING_STATUS_FAILED,
         failure_stage |-> failure_stage,
         failed_reason |-> "reason"])

\* The message_processing row ingestion writes for a new message.
NewProcessingRow ==
    [processing_success |-> NoValue,
     processing_status |-> PROCESSING_STATUS_RECEIVED,
     queue_messaging |-> NoValue,
     failure_stage |-> NoValue,
     failed_reason |-> NoValue,
     elastic_name |-> NoValue,
     elastic_index_name |-> NoValue]

\* ------------------------------------------------------------- table rows
\* An outbox row as ingestion writes it.
NewOutboxRow(m, correlation_id, event_type, created) ==
    [event_type |-> event_type,
     message_id |-> m,
     correlation_id |-> correlation_id,
     status |-> "pending",
     attempts |-> 0,
     last_error |-> NoValue,
     available_at_utc |-> app_now,
     locked_at_utc |-> NoTime,
     locked_by |-> NoValue,
     created_at_utc |-> created]

\* A row that has failed `n` times before and whose backoff is over.
RetriedRow(row, n) ==
    IF n = 0 THEN row
    ELSE [row EXCEPT !.status = "failed",
                     !.attempts = n,
                     !.last_error = IF row.event_type = HTTP_AUDIT_EVENT_TYPE
                                    THEN "elastic" ELSE "rabbit"]

\* --------------------------------------- BatchIngestFastpathUseCase.execute
EmptyTx ==
    [user_rows |-> {}, message_rows |-> <<>>, processing_rows |-> <<>>,
     outbox_rows |-> <<>>]
IdleRequest ==
    [pc |-> "idle", raw_correlation |-> <<>>, items |-> <<>>, to_create |-> {},
     missing_users |-> {}, tx |-> EmptyTx, accepted |-> 0, error |-> NoValue,
     raised_at |-> NoValue]

\* The batches a client may post: the correlation_id field of each item, a
\* string of its own, "" (the key is absent or the string is blank) or
\* "null" (the key is present with the JSON value null).
ItemBatches ==
    UNION {[1..n -> Correlations \cup {"", "null"}] : n \in 1..MaxItems}

\* The prepare loop: str(item.get('correlation_id', '')).strip(), or a uuid4
\* when that is empty.  str() of None is the string 'None'; no two (request,
\* item) pairs get the same uuid4.
Prepared(r, items) ==
    [i \in 1..Len(items) |->
        IF items[i] = "null" THEN "None"
        ELSE IF items[i] = "" THEN "uuid-" \o r \o "-" \o ToString(i)
        ELSE items[i]]

\* uuid4 ids: no two (request, item) pairs get the same one.
MessageIdOf(r, i) == (IF r = "r1" THEN 10 ELSE 20) + i

\* ToCreate without the lookup of the existing messages: a faulty variant,
\* to see that C12 tells it apart.
ToCreate_IgnoringExisting(items, existing) ==
    {i \in 1..Len(items) : \A j \in 1..(i - 1) : items[j] # items[i]}

\* The dedupe loop: the first item of each correlation_id no committed
\* message has.
ToCreate(items, existing) ==
    {i \in 1..Len(items) :
        /\ items[i] \notin existing
        /\ \A j \in 1..(i - 1) : items[j] # items[i]}

BuildMessageRows(r, items, to_create) ==
    [m \in {MessageIdOf(r, i) : i \in to_create} |->
        items[CHOOSE i \in to_create : MessageIdOf(r, i) = m]]

BuildProcessingRows(r, items, to_create) ==
    [m \in {MessageIdOf(r, i) : i \in to_create} |-> NewProcessingRow]

\* BuildOutboxRows that writes an event for the first entry only: a faulty
\* variant, to see that C10 tells it apart.
BuildOutboxRows_FirstOnly(r, items, to_create) ==
    [m \in {MessageIdOf(r, i) : i \in {j \in to_create : \A k \in to_create : j <= k}} |->
        NewOutboxRow(m, items[CHOOSE i \in to_create : MessageIdOf(r, i) = m],
                     MESSAGE_RECEIVED, app_now)]

BuildOutboxRows(r, items, to_create) ==
    [m \in {MessageIdOf(r, i) : i \in to_create} |->
        NewOutboxRow(m, items[CHOOSE i \in to_create : MessageIdOf(r, i) = m],
                     MESSAGE_RECEIVED, app_now)]

CommittedCorrelations == {messages[m] : m \in DOMAIN messages}

\* A correlation_id another open transaction has inserted and not committed:
\* the unique index makes this insert wait for that transaction.
PendingElsewhere(r, c) ==
    \E q \in Requests \ {r} :
        \E m \in DOMAIN requests[q].tx.message_rows :
            requests[q].tx.message_rows[m] = c

\* The same for users.external_user_key.
UserPendingElsewhere(r, u) ==
    \E q \in Requests \ {r} : u \in requests[q].tx.user_rows

\* _resolve_users_for_batch: the users of the entries to create that no
\* committed row has (missing_rows).
MissingUsers(items, to_create, existing_users) ==
    {UserKeyOf(items[i]) : i \in to_create} \ existing_users

\* Accepted that counts the created messages: a faulty variant, to see that
\* C19 tells it apart.
Accepted_Created(items, to_create) == Cardinality(to_create)

\* accepted=len(prepared): one per input item.
Accepted(items, to_create) == Len(items)

\* A row this request is about to insert has the unique key of a row
\* committed since the request read the tables.
UniqueConflict(r) ==
    \/ \E i \in requests[r].to_create :
          requests[r].items[i] \in CommittedCorrelations
    \/ requests[r].missing_users \cap users # {}

\* The exception a failing statement raises.
ErrorOf(r) ==
    IF requests[r].pc = "insert_messages" /\ UniqueConflict(r)
    THEN "IntegrityError" ELSE "OperationalError"

\* A rollback that leaves the rows in the table: a faulty variant, to see
\* that C11 tells it apart.
Rollback_KeepingRows(table, rows) == Inserted(table, rows)

\* db.close() without a commit: the rows of the transaction are discarded.
Rollback(table, rows) == table

\* execute up to the inserts, as a function of the items: prepare, query
\* the existing messages, dedupe, and look up the users.
StartedRequest(r, items) ==
    LET prepared == Prepared(r, items)
        to_create == ToCreate(prepared, CommittedCorrelations)
    IN [pc |-> IF to_create = {} THEN "commit" ELSE "insert_messages",
        raw_correlation |-> items,
        items |-> prepared,
        to_create |-> to_create,
        missing_users |-> MissingUsers(prepared, to_create, users),
        tx |-> EmptyTx,
        accepted |-> 0,
        error |-> NoValue,
        raised_at |-> NoValue]

\* A batch request arrives and execute runs up to the inserts.
FpQuery(r) ==
    /\ requests[r].pc = "idle"
    /\ \E items \in ItemBatches :
          requests' = [requests EXCEPT ![r] = StartedRequest(r, items)]
    /\ UNCHANGED <<settings, for_update, users, messages, processing,
                   outputs, search_index, outbox, pc, events, succeeded_ids,
                   failed_by_id, published, broker, consumer, http, claims,
                   crashes, analysis>>

\* bulk_insert_users with its flush, then bulk_insert_messages, inside the
\* open transaction.
FpInsertMessages(r) ==
    /\ requests[r].pc = "insert_messages"
    /\ ~UniqueConflict(r)
    /\ \A u \in requests[r].missing_users : ~UserPendingElsewhere(r, u)
    /\ LET rows == BuildMessageRows(r, requests[r].items, requests[r].to_create)
       IN /\ \A m \in DOMAIN rows : ~PendingElsewhere(r, rows[m])
          /\ requests' = [requests EXCEPT
                ![r].tx.user_rows = requests[r].missing_users,
                ![r].tx.message_rows = rows,
                ![r].pc = "insert_processing"]
    /\ UNCHANGED <<settings, for_update, users, messages, processing,
                   outputs, search_index, outbox, pc, events, succeeded_ids,
                   failed_by_id, published, broker, consumer, http, claims,
                   crashes, analysis>>

\* bulk_insert_message_processing inside the open transaction.
FpInsertProcessing(r) ==
    /\ requests[r].pc = "insert_processing"
    /\ requests' = [requests EXCEPT
          ![r].tx.processing_rows =
              BuildProcessingRows(r, requests[r].items, requests[r].to_create),
          ![r].pc = "insert_outbox"]
    /\ UNCHANGED <<settings, for_update, users, messages, processing,
                   outputs, search_index, outbox, pc, events, succeeded_ids,
                   failed_by_id, published, broker, consumer, http, claims,
                   crashes, analysis>>

\* bulk_insert_outbox_events and the flush, inside the open transaction.
FpInsertOutbox(r) ==
    /\ requests[r].pc = "insert_outbox"
    /\ requests' = [requests EXCEPT
          ![r].tx.outbox_rows =
              BuildOutboxRows(r, requests[r].items, requests[r].to_create),
          ![r].pc = "commit"]
    /\ UNCHANGED <<settings, for_update, users, messages, processing,
                   outputs, search_index, outbox, pc, events, succeeded_ids,
                   failed_by_id, published, broker, consumer, http, claims,
                   crashes, analysis>>

\* self.db.commit(): the rows of the transaction become visible together,
\* and the call returns accepted.
FpCommit(r) ==
    /\ requests[r].pc = "commit"
    /\ users' = users \cup requests[r].tx.user_rows
    /\ messages' = Inserted(messages, requests[r].tx.message_rows)
    /\ processing' = Inserted(processing, requests[r].tx.processing_rows)
    /\ outbox' = Inserted(outbox, requests[r].tx.outbox_rows)
    /\ requests' = [requests EXCEPT
          ![r].tx = EmptyTx,
          ![r].pc = "done",
          ![r].accepted = Accepted(requests[r].items, requests[r].to_create)]
    /\ UNCHANGED <<settings, for_update, outputs, search_index, pc, events,
                   succeeded_ids, failed_by_id, published, broker, consumer,
                   http, claims, crashes, analysis>>

\* The query, a statement or the commit raises (a unique violation on
\* correlation_id or external_user_key, a database error): execute has no
\* handler, get_db closes the session and the transaction is rolled back.
\* raised_at keeps the step that raised.
FpRaise(r) ==
    /\ requests[r].pc \in {"idle", "insert_messages", "insert_processing",
                           "insert_outbox", "commit"}
    /\ messages' = Rollback(messages, requests[r].tx.message_rows)
    /\ processing' = Rollback(processing, requests[r].tx.processing_rows)
    /\ outbox' = Rollback(outbox, requests[r].tx.outbox_rows)
    /\ requests' = [requests EXCEPT ![r].tx = EmptyTx,
                                    ![r].pc = "failed",
                                    ![r].error = ErrorOf(r),
                                    ![r].raised_at = requests[r].pc]
    /\ UNCHANGED <<settings, for_update, users, outputs, search_index, pc,
                   events, succeeded_ids, failed_by_id, published, broker,
                   consumer, http, claims, crashes, analysis>>

\* ------------------------------------------------------- run_worker steps
\* IsAudit that takes every event for an audit event: a faulty variant, to
\* see that C24 tells it apart.
IsAudit_Any(r) == TRUE

IsAudit(r) == r.event_type = HTTP_AUDIT_EVENT_TYPE
audit_events(w) == SelectSeq(events[w], IsAudit)
IsRabbit(r) == r.event_type # HTTP_AUDIT_EVENT_TYPE
rabbit_events(w) == SelectSeq(events[w], IsRabbit)

\* Where run_worker goes once `rows` are what is left of the batch.
StageOf(rows) ==
    IF rows = <<>> THEN "idle"
    ELSE IF SelectSeq(rows, IsAudit) # <<>> THEN "audit"
    ELSE "publish"

\* Top of the loop: now_utc, lock_cutoff and the SELECT of the claim.  An
\* empty result is the sleep-and-continue branch and changes nothing.
ClaimSelect(w) ==
    /\ pc[w] = "idle"
    /\ LET now_utc == app_now
           lock_cutoff == now_utc - LockTimeout
           only_audit == settings.bypass_rabbit_for_tests
           types == IF only_audit THEN {HTTP_AUDIT_EVENT_TYPE} ELSE {}
       IN \E rows \in claim_outbox_events(w, now_utc, lock_cutoff,
                                          Max2(1, outbox_batch_size), types) :
            /\ rows # <<>>
            /\ events' = [events EXCEPT ![w] = rows]
    /\ claims < MaxClaims
    /\ claims' = claims + 1
    /\ pc' = [pc EXCEPT ![w] = "claiming"]
    /\ UNCHANGED <<settings, for_update, users, messages, processing,
                   outputs, search_index, outbox, requests, succeeded_ids,
                   failed_by_id, published, broker, consumer, http, crashes,
                   analysis>>

\* The same top of the loop with OUTBOX_BATCH_SIZE set to WideBatchSize.
ClaimSelectWide(w) ==
    /\ pc[w] = "idle"
    /\ LET now_utc == app_now
           lock_cutoff == now_utc - LockTimeout
           only_audit == settings.bypass_rabbit_for_tests
           types == IF only_audit THEN {HTTP_AUDIT_EVENT_TYPE} ELSE {}
       IN \E rows \in claim_outbox_events(w, now_utc, lock_cutoff,
                                          Max2(1, WideBatchSize), types) :
            /\ rows # <<>>
            /\ events' = [events EXCEPT ![w] = rows]
    /\ claims < MaxClaims
    /\ claims' = claims + 1
    /\ pc' = [pc EXCEPT ![w] = "claiming"]
    /\ UNCHANGED <<settings, for_update, users, messages, processing,
                   outputs, search_index, outbox, requests, succeeded_ids,
                   failed_by_id, published, broker, consumer, http, crashes,
                   analysis>>

\* session.commit() of the claim, then the partition by event type.
ClaimCommit(w) ==
    /\ pc[w] = "claiming"
    /\ outbox' = FlushClaim(outbox, events[w])
    /\ pc' = [pc EXCEPT ![w] = StageOf(events[w])]
    /\ UNCHANGED <<settings, for_update, users, messages, processing,
                   outputs, search_index, requests, events, succeeded_ids,
                   failed_by_id, published, broker, consumer, http, claims,
                   crashes, analysis>>

\* bypass_elastic_for_tests: every audit event is marked published unsent.
AuditBypassTable(table, ids) ==
    [e \in DOMAIN table |->
        IF e \in ids THEN mark_outbox_published(table, e)[e] ELSE table[e]]

AuditBypass(w) ==
    /\ pc[w] = "audit"
    /\ settings.bypass_elastic_for_tests
    /\ \A e \in Ids(audit_events(w)) : ~RowLockedByOther(e, w)
    /\ outbox' = AuditBypassTable(outbox, Ids(audit_events(w)))
    /\ events' = [events EXCEPT ![w] = rabbit_events(w)]
    /\ pc' = [pc EXCEPT ![w] = StageOf(rabbit_events(w))]
    /\ UNCHANGED <<settings, for_update, users, messages, processing,
                   outputs, search_index, requests, succeeded_ids,
                   failed_by_id, published, broker, consumer, http, claims,
                   crashes, analysis>>

\* What writer.bulk_write can do with a chunk: raise, or return the error
\* items of the bulk response, each carrying the _id of its document.
BulkResponses(ids) ==
    [raised : BOOLEAN, errors : SUBSET {[index |-> [_id |-> e]] : e \in ids}]

\* The keys of the failure map: the _id of every error item.
_extract_bulk_failures(errors) == {item.index._id : item \in errors}

\* _publish_audit_events that counts a bulk call that raised as a success
\* of every item: a faulty variant, to see that C23 tells it apart.
_publish_audit_events_RaiseIgnored(ids, response) ==
    IF response.raised
    THEN [succeeded_ids |-> ids, failures |-> {}]
    ELSE [succeeded_ids |-> ids \ _extract_bulk_failures(response.errors),
          failures |-> _extract_bulk_failures(response.errors)]

\* One chunk: the ids that succeeded and the ids of the failure map.
_publish_audit_events(ids, response) ==
    IF response.raised
    THEN [succeeded_ids |-> {}, failures |-> ids]
    ELSE [succeeded_ids |-> ids \ _extract_bulk_failures(response.errors),
          failures |-> _extract_bulk_failures(response.errors)]

\* The bulk request of the audit events (one chunk: elastic_audit_bulk_size
\* is not below the batch size).
AuditIndex(w) ==
    /\ pc[w] = "audit"
    /\ ~settings.bypass_elastic_for_tests
    /\ \E response \in BulkResponses(Ids(audit_events(w))) :
          LET chunk == _publish_audit_events(Ids(audit_events(w)), response)
          IN /\ succeeded_ids' = [succeeded_ids EXCEPT ![w] = chunk.succeeded_ids]
             /\ failed_by_id' = [failed_by_id EXCEPT ![w] = chunk.failures]
    /\ pc' = [pc EXCEPT ![w] = "audit_mark"]
    /\ UNCHANGED <<settings, for_update, users, messages, processing,
                   outputs, search_index, outbox, requests, events,
                   published, broker, consumer, http, claims, crashes,
                   analysis>>

\* AuditMarkRow that fails every event of a batch in which one item failed:
\* a faulty variant, to see that C14 tells it apart.
AuditMarkRow_FailingAll(table, r, good, processed_at) ==
    mark_outbox_failed(table, r.id,
        processed_at + _compute_backoff_seconds(r.attempts), "elastic")[r.id]

\* The one transaction that writes the status of every audit event.
AuditMarkRow(table, r, good, processed_at) ==
    IF r.id \in good
    THEN mark_outbox_published(table, r.id)[r.id]
    ELSE mark_outbox_failed(table, r.id,
             processed_at + _compute_backoff_seconds(r.attempts), "elastic")[r.id]

AuditMarkTable(table, rows, good, processed_at) ==
    [e \in DOMAIN table |->
        IF e \in Ids(rows)
        THEN AuditMarkRow(table, CHOOSE r \in Range(rows) : r.id = e,
                          good, processed_at)
        ELSE table[e]]

AuditMark(w) ==
    /\ pc[w] = "audit_mark"
    /\ \A e \in Ids(audit_events(w)) : ~RowLockedByOther(e, w)
    /\ outbox' = AuditMarkTable(outbox, audit_events(w), succeeded_ids[w], app_now)
    /\ succeeded_ids' = [succeeded_ids EXCEPT ![w] = {}]
    /\ failed_by_id' = [failed_by_id EXCEPT ![w] = {}]
    /\ events' = [events EXCEPT ![w] = rabbit_events(w)]
    /\ pc' = [pc EXCEPT ![w] = StageOf(rabbit_events(w))]
    /\ UNCHANGED <<settings, for_update, users, messages, processing,
                   outputs, search_index, requests, published, broker,
                   consumer, http, claims, crashes, analysis>>

\* rabbit_bus.publish_event: True once basic_publish has handed the envelope
\* to the broker, False when it raised (or was not attempted).
PublishResults == IF settings.bypass_rabbit_for_tests THEN {FALSE} ELSE BOOLEAN

Enqueued(queue, m, result) == IF result THEN Append(queue, m) ELSE queue

Publish(w) ==
    /\ pc[w] = "publish"
    /\ \E result \in PublishResults :
          /\ published' = [published EXCEPT ![w] = result]
          /\ broker' = Enqueued(broker, Head(events[w]).message_id, result)
    /\ pc' = [pc EXCEPT ![w] = "mark"]
    /\ UNCHANGED <<settings, for_update, users, messages, processing,
                   outputs, search_index, outbox, requests, events,
                   succeeded_ids, failed_by_id, consumer, http, claims,
                   crashes, analysis>>

\* RabbitMarkOutbox that never looks at the publish result: a faulty
\* variant, to see that C1 tells it apart.
RabbitMarkOutbox_IgnoringResult(table, r, was_published, processed_at) ==
    mark_outbox_published(table, r.id)

\* The status transaction of one rabbit event (lines 304-343).
RabbitMarkOutbox(table, r, was_published, processed_at) ==
    IF was_published
    THEN mark_outbox_published(table, r.id)
    ELSE mark_outbox_failed(table, r.id,
             processed_at + _compute_backoff_seconds(r.attempts), "rabbit")

RabbitMarkProcessing(table, r, was_published) ==
    IF was_published THEN mark_queued(table, r.message_id, queue_of_analyze)
    ELSE table

MarkRabbit(w) ==
    /\ pc[w] = "mark"
    /\ LET r == Head(events[w])
           rest == Tail(events[w])
       IN /\ ~RowLockedByOther(r.id, w)
          /\ outbox' = RabbitMarkOutbox(outbox, r, published[w], app_now)
          /\ processing' = RabbitMarkProcessing(processing, r, published[w])
          /\ events' = [events EXCEPT ![w] = rest]
          /\ pc' = [pc EXCEPT ![w] = StageOf(rest)]
    /\ published' = [published EXCEPT ![w] = FALSE]
    /\ UNCHANGED <<settings, for_update, users, messages, outputs,
                   search_index, requests, succeeded_ids, failed_by_id,
                   broker, consumer, http, claims, crashes, analysis>>

\* The process dies (a kill, or an exception leaving run_worker) and is
\* started again: an open transaction is rolled back, locals are lost.
Crash(w) ==
    /\ pc[w] # "idle"
    /\ crashes < MaxCrashes
    /\ crashes' = crashes + 1
    /\ pc' = [pc EXCEPT ![w] = "idle"]
    /\ events' = [events EXCEPT ![w] = <<>>]
    /\ succeeded_ids' = [succeeded_ids EXCEPT ![w] = {}]
    /\ failed_by_id' = [failed_by_id EXCEPT ![w] = {}]
    /\ published' = [published EXCEPT ![w] = FALSE]
    /\ UNCHANGED <<settings, for_update, users, messages, processing,
                   outputs, search_index, outbox, requests, broker, consumer,
                   http, claims, analysis>>

\* --------------------------------------------- analyze_feed, online branch
\* ---- validate_analyze_payload and validate_batch_payload
\* Text fields are sequences of characters, so that the validators look at
\* them as the code does.
Chars(n, c) == [i \in 1..n |-> c]
UserPrefix == <<"u", "s", "e", "r", "_">>

\* USER_ID_PATTERN, ^user_[a-z0-9_]{3,}$, over the characters above.
IsUserId(u) ==
    /\ Len(u) >= Len(UserPrefix) + 3
    /\ SubSeq(u, 1, Len(UserPrefix)) = UserPrefix
    /\ \A i \in (Len(UserPrefix) + 1)..Len(u) :
          u[i] \in {"a", "b", "c", "0", "1", "_"}

\* The hashtag test: starts with '#' and has two characters at least.
IsHashtag(tag) == Len(tag) >= 2 /\ tag[1] = "#"

NoPayload ==
    [kind |-> "none", time_window_minutes |-> 0, messages |-> <<>>,
     items |-> <<>>, item_user_id |-> <<>>]

\* The bodies a client may post: with the key 'items' (kind "batch") or
\* without it (kind "online").  A timestamp is its UTC offset, NoValue when
\* the text has none (parsed.tzinfo is None).
Payloads ==
    [kind : {"online"}, time_window_minutes : {0, 60, 123},
     messages : {<<>>} \cup
        {<<m>> : m \in [user_id : {UserPrefix \o Chars(3, "a"), <<"i", "d">>},
                        timestamp : {"Z", NoValue},
                        hashtags : {<<<<"#", "a">>>>, <<<<"a">>>>},
                        reactions : 0..1, shares : 0..1, views : 0..1]},
     items : {<<>>}, item_user_id : {<<>>}]
    \cup
    [kind : {"batch"}, time_window_minutes : {0, 60, 123},
     messages : {<<>>},
     items : {<<>>} \cup ItemBatches \cup {Chars(BATCH_LIMIT + 1, "c1")},
     item_user_id : {UserPrefix \o Chars(3, "a"), <<>>}]

ApiValidationError(status_code, code) == [status_code |-> status_code, code |-> code]
Validated == [status_code |-> 0, code |-> NoValue]

\* The tests on one message, in the order of the loop body.
validate_message(m) ==
    IF ~IsUserId(m.user_id) THEN ApiValidationError(400, "INVALID_USER_ID")
    ELSE IF m.timestamp = NoValue THEN ApiValidationError(400, "INVALID_TIMESTAMP")
    ELSE IF \E i \in 1..Len(m.hashtags) : ~IsHashtag(m.hashtags[i])
         THEN ApiValidationError(400, "INVALID_HASHTAGS")
    ELSE IF m.views < m.reactions + m.shares
         THEN ApiValidationError(400, "INVALID_VIEWS")
    ELSE Validated

\* validate_analyze_payload that looks at the time window after the
\* messages: a faulty variant, to see that C20 tells it apart.
validate_analyze_payload_WindowLast(payload) ==
    LET bad == {i \in 1..Len(payload.messages) :
                   validate_message(payload.messages[i]) # Validated}
    IN IF payload.messages = <<>> THEN ApiValidationError(400, "INVALID_MESSAGES")
       ELSE IF bad # {}
            THEN validate_message(payload.messages[
                     CHOOSE i \in bad : \A j \in bad : i <= j])
       ELSE IF payload.time_window_minutes = 123
            THEN ApiValidationError(422, "UNSUPPORTED_TIME_WINDOW")
       ELSE IF payload.time_window_minutes <= 0
            THEN ApiValidationError(400, "INVALID_TIME_WINDOW")
       ELSE Validated

validate_analyze_payload(payload) ==
    LET bad == {i \in 1..Len(payload.messages) :
                   validate_message(payload.messages[i]) # Validated}
    IN IF payload.time_window_minutes = 123
       THEN ApiValidationError(422, "UNSUPPORTED_TIME_WINDOW")
       ELSE IF payload.time_window_minutes <= 0
            THEN ApiValidationError(400, "INVALID_TIME_WINDOW")
       ELSE IF payload.messages = <<>>
            THEN ApiValidationError(400, "INVALID_MESSAGES")
       ELSE IF bad # {}
            THEN validate_message(payload.messages[
                     CHOOSE i \in bad : \A j \in bad : i <= j])
       ELSE Validated

\* validate_batch_payload with validate_batch_item: time_window_minutes is
\* not looked at.
validate_batch_payload(payload) ==
    IF payload.items = <<>> THEN ApiValidationError(400, "INVALID_ITEMS")
    ELSE IF Len(payload.items) > BATCH_LIMIT
         THEN ApiValidationError(400, "BATCH_LIMIT_EXCEEDED")
    ELSE IF payload.item_user_id = <<>>
         THEN ApiValidationError(400, "INVALID_USER_ID")
    ELSE Validated

\* --------------------------------------------- analyze_feed, online branch
\* pc "start" is a request whose payload has passed validation.
IdleHttp ==
    [pc |-> "start", published |-> FALSE, correlation_id |-> NoValue,
     created_new |-> FALSE, status_code |-> 0, error |-> NoValue,
     payload |-> NoPayload, code |-> NoValue, body_correlation_id |-> NoValue]

\* The request comes in: the middleware fixes its correlation_id (the
\* header, or a uuid4) and the route gets the body.
HttpReceive ==
    /\ http.pc = "start"
    /\ http.payload = NoPayload
    /\ \E c \in Correlations, payload \in Payloads :
          http' = [http EXCEPT !.pc = "validate", !.correlation_id = c,
                               !.payload = payload]
    /\ UNCHANGED <<settings, for_update, users, messages, processing,
                   outputs, search_index, outbox, requests, pc, events,
                   succeeded_ids, failed_by_id, published, broker, consumer,
                   claims, crashes, analysis>>

\* The route picks the branch by the key 'items' and validates.  A
\* validation error is answered by the ApiValidationError handler with
\* {error, code, correlation_id}; a valid batch goes to execute, a valid
\* online payload to save_message_request.
HttpValidate ==
    /\ http.pc = "validate"
    /\ LET payload == http.payload
           result == IF payload.kind = "batch"
                     THEN validate_batch_payload(payload)
                     ELSE validate_analyze_payload(payload)
       IN IF result # Validated
          THEN /\ http' = [http EXCEPT
                      !.pc = "rejected",
                      !.status_code = result.status_code,
                      !.code = result.code,
                      !.body_correlation_id = http.correlation_id]
               /\ requests' = requests
          ELSE IF payload.kind = "batch"
          THEN /\ http' = [http EXCEPT !.pc = "batch"]
               /\ requests' = [requests EXCEPT
                      !["r1"] = StartedRequest("r1", payload.items)]
          ELSE /\ http' = [http EXCEPT !.pc = "start"]
               /\ requests' = requests
    /\ UNCHANGED <<settings, for_update, users, messages, processing,
                   outputs, search_index, outbox, pc, events, succeeded_ids,
                   failed_by_id, published, broker, consumer, claims,
                   crashes, analysis>>


\* save_message_request, lines 37-39: the lookup by correlation_id.  An
\* existing message ends the request: created_new is False and the route
\* returns 200.
HttpLookup ==
    /\ http.pc = "start"
    /\ \E c \in IF http.correlation_id = NoValue
               THEN Correlations ELSE {http.correlation_id} :
          http' = IF c \in CommittedCorrelations
                  THEN [http EXCEPT !.pc = "done", !.correlation_id = c,
                                    !.created_new = FALSE, !.status_code = 200]
                  ELSE [http EXCEPT !.pc = "insert", !.correlation_id = c]
    /\ UNCHANGED <<settings, for_update, users, messages, processing,
                   outputs, search_index, outbox, requests, pc, events,
                   succeeded_ids, failed_by_id, published, broker, consumer,
                   claims, crashes, analysis>>

\* A fast-path transaction holds the key this request is about to insert.
HttpBlocked ==
    \E q \in Requests :
        \/ \E m \in DOMAIN requests[q].tx.message_rows :
              requests[q].tx.message_rows[m] = http.correlation_id
        \/ UserKeyOf(http.correlation_id) \in requests[q].tx.user_rows

\* save_message_request, lines 41-112: the user, the message, its
\* 'received' processing row and its output rows (one sentiment, flags and
\* anomaly row, the influence items, the topic links: what
\* persist_normalized_outputs leaves for a message without rows), in one
\* commit (created_new).
HttpSave ==
    /\ http.pc = "insert"
    /\ http.correlation_id \notin CommittedCorrelations
    /\ ~HttpBlocked
    /\ users' = users \cup {UserKeyOf(http.correlation_id)}
    /\ messages' = Inserted(messages,
                            [m \in {OnlineMessage} |-> http.correlation_id])
    /\ processing' = Inserted(processing,
                        [m \in {OnlineMessage} |-> NewProcessingRow])
    /\ outputs' = persist_normalized_outputs(outputs, {OnlineMessage},
                      OnlineMessage,
                      _normalized_payload_from_event(ToString(OnlineMessage)))
    /\ http' = [http EXCEPT !.pc = "publish", !.created_new = TRUE]
    /\ UNCHANGED <<settings, for_update, search_index, outbox, requests, pc,
                   events, succeeded_ids, failed_by_id, published, broker,
                   consumer, claims, crashes, analysis>>

\* save_message_request raises (the unique index on correlation_id, a
\* database error): nothing is committed and the handler for Exception
\* answers 500.
HttpRaise ==
    /\ http.pc = "insert"
    /\ ~HttpBlocked
    /\ http' = [http EXCEPT
          !.pc = "failed",
          !.status_code = 500,
          !.error = IF http.correlation_id \in CommittedCorrelations
                    THEN "IntegrityError" ELSE "OperationalError"]
    /\ UNCHANGED <<settings, for_update, users, messages, processing,
                   outputs, search_index, outbox, requests, pc, events,
                   succeeded_ids, failed_by_id, published, broker, consumer,
                   claims, crashes, analysis>>

\* The direct publish of the 'analyze_feed.completed' envelope.
HttpPublish ==
    /\ http.pc = "publish"
    /\ \E result \in PublishResults :
          /\ http' = [http EXCEPT !.pc = "mark", !.published = result]
          /\ broker' = Enqueued(broker, OnlineMessage, result)
    /\ UNCHANGED <<settings, for_update, users, messages, processing,
                   outputs, search_index, outbox, requests, pc, events,
                   succeeded_ids, failed_by_id, published, consumer, claims,
                   crashes, analysis>>

HttpMarkProcessing(table, m, was_published) ==
    IF was_published THEN mark_queued(table, m, queue_of_analyze)
    ELSE IF ~settings.bypass_rabbit_for_tests THEN mark_publish_failed(table, m)
    ELSE table

\* mark_queued or mark_publish_failed, then return {'analysis': analysis}.
HttpMark ==
    /\ http.pc = "mark"
    /\ processing' = HttpMarkProcessing(processing, OnlineMessage, http.published)
    /\ http' = [http EXCEPT !.pc = "done", !.status_code = 200]
    /\ UNCHANGED <<settings, for_update, users, messages, outputs,
                   search_index, outbox, requests, pc, events, succeeded_ids,
                   failed_by_id, published, broker, consumer, claims,
                   crashes, analysis>>

\* ------------------------------------------ ingestor_consumer._handle_message
\* committed is the final status this callback has committed for its
\* delivery; redelivered is the flag of a delivery the broker hands out again.
\* envelope is the body and the properties of a delivery that did not come
\* from this system's publishers.
IdleConsumer ==
    [pc |-> "idle", delivery |-> <<>>, committed |-> NoValue,
     redelivered |-> FALSE,
     envelope |-> [body |-> NoValue, eventName |-> NoValue, payload |-> NoValue,
                   correlationId |-> NoValue, correlation_id |-> NoValue]]

\* The broker hands the oldest envelope to the consumer callback.
ConsumerReceive ==
    /\ consumer.pc = "idle"
    /\ broker # <<>>
    /\ consumer' = [consumer EXCEPT !.pc = "mark_processing",
                                    !.delivery = <<Head(broker)>>,
                                    !.committed = NoValue]
    /\ broker' = Tail(broker)
    /\ UNCHANGED <<settings, for_update, users, messages, processing,
                   outputs, search_index, outbox, requests, pc, events,
                   succeeded_ids, failed_by_id, published, http, claims,
                   crashes, analysis>>

\* service.mark_processing(correlation_id), committed.
ConsumerMarkProcessing ==
    /\ consumer.pc = "mark_processing"
    /\ processing' = mark_processing(processing, consumer.delivery[1])
    /\ consumer' = [consumer EXCEPT !.pc = "process"]
    /\ UNCHANGED <<settings, for_update, users, messages, outputs,
                   search_index, outbox, requests, pc, events, succeeded_ids,
                   failed_by_id, published, broker, http, claims, crashes,
                   analysis>>

\* The try block in one step.  `last` is the call that raised, or
\* mark_processed when none did: the outputs are committed unless
\* persist_normalized_outputs raised, and the document is indexed unless
\* indexing is bypassed or the exception came before client.index
\* returned.  search_index keeps the distinct documents; a second write of
\* an equal document adds an equal copy.
\* How the try block and its except clause end: mark_processed committed;
\* something raised and mark_processing_failed committed; something raised
\* and mark_processing_failed raised too (the database is away).
ConsumerOutcomes ==
    {PROCESSING_STATUS_PROCESSED, PROCESSING_STATUS_FAILED, "raise"}

ConsumerOutcome(table, m, outcome) ==
    IF outcome = PROCESSING_STATUS_PROCESSED
    THEN mark_processed(table, m, elasticsearch_index_prefix,
             IF settings.bypass_elastic_for_tests THEN NoValue
             ELSE elasticsearch_index_prefix \o "-day")
    ELSE IF outcome = PROCESSING_STATUS_FAILED
         THEN mark_processing_failed(table, m, "consumer")
         ELSE table

\* HandlerExit that reaches basic_ack whatever happened: a faulty variant,
\* to see that C15 tells it apart.
HandlerExit_AlwaysAck(outcome) == "ack"

\* Where _handle_message goes next: on to basic_ack (line 330), or out of
\* the callback with the exception of mark_processing_failed.
HandlerExit(outcome) == IF outcome = "raise" THEN "idle" ELSE "ack"

\* An exception leaves the callback: consume_forever reconnects and the
\* broker hands the unacknowledged delivery out again.
Redelivered(queue, m, exit) == IF exit = "idle" THEN <<m>> \o queue ELSE queue

ConsumerProcess ==
    /\ consumer.pc = "process"
    /\ \E outcome \in ConsumerOutcomes,
          last \in {"persist_normalized_outputs", "write", "_ensure_alias",
                    "mark_processed"} :
          LET m == consumer.delivery[1]
              payload == _normalized_payload_from_event(ToString(m))
          IN
          /\ outcome = PROCESSING_STATUS_PROCESSED => last = "mark_processed"
          /\ settings.bypass_elastic_for_tests =>
                last \notin {"write", "_ensure_alias"}
          /\ outputs' = IF last = "persist_normalized_outputs" THEN outputs
                        ELSE persist_normalized_outputs(outputs, DOMAIN messages,
                                                        m, payload)
          /\ search_index' =
                IF \/ settings.bypass_elastic_for_tests
                   \/ last \in {"persist_normalized_outputs", "write"}
                THEN search_index
                ELSE search_index \cup
                        {_build_elastic_document(messages[m], m, payload)}
          /\ processing' = ConsumerOutcome(processing, consumer.delivery[1], outcome)
          /\ broker' = Redelivered(broker, consumer.delivery[1], HandlerExit(outcome))
          /\ consumer' = [pc |-> HandlerExit(outcome),
                          delivery |-> IF HandlerExit(outcome) = "idle"
                                       THEN <<>> ELSE consumer.delivery,
                          committed |-> IF outcome = "raise"
                                        THEN NoValue ELSE outcome,
                          redelivered |-> \/ consumer.redelivered
                                          \/ HandlerExit(outcome) = "idle",
                          envelope |-> consumer.envelope]
    /\ UNCHANGED <<settings, for_update, users, messages, outbox, requests,
                   pc, events, succeeded_ids, failed_by_id, published, http,
                   claims, crashes, analysis>>

\* channel.basic_ack at the end of the callback.
ConsumerAck ==
    /\ consumer.pc = "ack"
    /\ consumer' = IdleConsumer
    /\ UNCHANGED <<settings, for_update, users, messages, processing,
                   outputs, search_index, outbox, requests, pc, events,
                   succeeded_ids, failed_by_id, published, broker, http,
                   claims, crashes, analysis>>

\* What any publisher can put on the queue: a body that is not JSON, JSON
\* that is not an object, or an object with its eventName, payload and
\* correlationId; and the correlation_id property of the delivery.  These
\* are the deliveries that are not an object, name no supported event or
\* carry no correlationId.
InvalidDeliveries ==
    {d \in [body : {"not_json", "not_object", "object"},
            eventName : {"message_received", "other", NoValue},
            payload : {"dict", NoValue},
            correlationId : {"", "c1"},
            correlation_id : {"", "c1"}] :
        /\ d.body # "object" =>
              d.eventName = NoValue /\ d.payload = NoValue /\ d.correlationId = ""
        /\ d.body = "object" =>
              d.eventName # "message_received" \/ d.correlationId = ""}

\* _parse_event that takes any eventName: a faulty variant, to see that C30
\* tells it apart.
_parse_event_AnyEvent(d) ==
    IF d.body # "object" THEN "raise"
    ELSE IF d.payload # "dict" THEN "raise"
    ELSE "event"

\* json.loads raises on a body that is not JSON; ValueError for a value that
\* is not an object, an eventName outside SUPPORTED_EVENTS, a payload that
\* is not an object.
_parse_event(d) ==
    IF d.body # "object" THEN "raise"
    ELSE IF d.eventName \notin {"message_received", "analyze_feed.completed"}
         THEN "raise"
    ELSE IF d.payload # "dict" THEN "raise"
    ELSE "event"

\* The callback gets such a delivery and parses it: the except branch of the
\* parse, the branch of the empty correlationId, or on to mark_processing.
ConsumerReceiveInvalid ==
    /\ consumer.pc = "idle"
    /\ \E d \in InvalidDeliveries :
          LET found == {m \in DOMAIN processing : messages[m] = d.correlationId}
          IN consumer' =
                IF _parse_event(d) = "raise"
                THEN [consumer EXCEPT !.pc = "parse_failed", !.envelope = d,
                                      !.committed = NoValue]
                ELSE IF d.correlationId = "" \/ found = {}
                THEN [consumer EXCEPT !.pc = "drop_ack", !.envelope = d,
                                      !.committed = NoValue]
                ELSE [consumer EXCEPT !.pc = "mark_processing", !.envelope = d,
                                      !.delivery = <<CHOOSE m \in found : TRUE>>,
                                      !.committed = NoValue]
    /\ UNCHANGED <<settings, for_update, users, messages, processing,
                   outputs, search_index, outbox, requests, pc, events,
                   succeeded_ids, failed_by_id, published, broker, http,
                   claims, crashes, analysis>>

\* The except branch of the parse (lines 170-189): with a correlation_id
\* property, mark_processing_failed(stage 'parse') on the message that has
\* it, if any; then on to basic_ack.  When that call raises, the exception
\* leaves the callback and the broker hands the delivery out again.
ConsumerParseFailed ==
    /\ consumer.pc = "parse_failed"
    /\ LET c == consumer.envelope.correlation_id
           found == {m \in DOMAIN processing : messages[m] = c}
       IN \/ /\ c = "" \/ found = {}
             /\ processing' = processing
             /\ consumer' = [consumer EXCEPT !.pc = "drop_ack"]
          \/ /\ c # "" /\ found # {}
             /\ processing' = mark_processing_failed(processing,
                                   CHOOSE m \in found : TRUE, "parse")
             /\ consumer' = [consumer EXCEPT !.pc = "drop_ack",
                                             !.committed = PROCESSING_STATUS_FAILED]
          \/ /\ c # ""
             /\ processing' = processing
             /\ consumer' = [consumer EXCEPT !.redelivered = TRUE]
    /\ UNCHANGED <<settings, for_update, users, messages, outputs,
                   search_index, outbox, requests, pc, events, succeeded_ids,
                   failed_by_id, published, broker, http, claims, crashes,
                   analysis>>

\* channel.basic_ack of a delivery that is dropped (lines 189 and 199).
ConsumerDropAck ==
    /\ consumer.pc = "drop_ack"
    /\ consumer' = IdleConsumer
    /\ UNCHANGED <<settings, for_update, users, messages, processing,
                   outputs, search_index, outbox, requests, pc, events,
                   succeeded_ids, failed_by_id, published, broker, http,
                   claims, crashes, analysis>>

\* ---------------------------------------- sentiment_service, message level
\* _sentiment_for_message that flips a polar token with any number of marks
\* above zero: a faulty variant, to see that C33 tells it apart.
_sentiment_for_message_AnyMark(content, is_employee) ==
    LET hashtag(t) == t \in {"#tag"}
        normalized_tokens == SelectSeq(content, LAMBDA t : ~hashtag(t))
        n == Len(normalized_tokens)
        negation_marks ==
            [idx \in 1..n |->
                Cardinality({neg \in 1..n :
                    /\ normalized_tokens[neg] \in {"nao"}
                    /\ neg + 1 <= idx
                    /\ idx <= Min2(n, neg + 3)})]
        base(t) == IF t \in {"adorei", "gostei", "bom", "boa", "excelente", "otimo"}
                   THEN 2
                   ELSE IF t \in {"ruim", "terrivel", "pessimo", "horrivel", "lento"}
                        THEN -2 ELSE 0
        scan[idx \in 0..n] ==
            IF idx = 0
            THEN [score_sum |-> 0, polar_count |-> 0, pending_intensifier |-> FALSE]
            ELSE LET before == scan[idx - 1]
                     token == normalized_tokens[idx]
                     intensified == IF before.pending_intensifier
                                    THEN (base(token) * 3) \div 2 ELSE base(token)
                     negated == IF negation_marks[idx] > 0
                                THEN -intensified ELSE intensified
                     weighted == IF is_employee /\ negated > 0
                                 THEN negated * 2 ELSE negated
                 IN IF token \in {"muito", "super"}
                    THEN [before EXCEPT !.pending_intensifier = TRUE]
                    ELSE IF base(token) = 0 THEN before
                    ELSE [score_sum |-> before.score_sum + weighted,
                          polar_count |-> before.polar_count + 1,
                          pending_intensifier |-> FALSE]
        score_sum == scan[n].score_sum
        polar_count == scan[n].polar_count
    IN IF content = <<"teste", "tecnico", "mbras">>
       THEN [sentiment_label |-> "meta", score_sum |-> 0, polar_count |-> 0,
             is_meta |-> TRUE]
       ELSE IF n = 0 \/ polar_count = 0
       THEN [sentiment_label |-> "neutral", score_sum |-> 0, polar_count |-> 0,
             is_meta |-> FALSE]
       ELSE [sentiment_label |->
                IF 5 * score_sum > polar_count THEN "positive"
                ELSE IF 5 * score_sum < -polar_count THEN "negative"
                ELSE "neutral",
             score_sum |-> score_sum,
             polar_count |-> polar_count,
             is_meta |-> FALSE]

\* _sentiment_for_message whose pending_intensifier stays set after it was
\* used: a faulty variant, to see that C34 tells it apart.
_sentiment_for_message_StickyIntensifier(content, is_employee) ==
    LET hashtag(t) == t \in {"#tag"}
        normalized_tokens == SelectSeq(content, LAMBDA t : ~hashtag(t))
        n == Len(normalized_tokens)
        negation_marks ==
            [idx \in 1..n |->
                Cardinality({neg \in 1..n :
                    /\ normalized_tokens[neg] \in {"nao"}
                    /\ neg + 1 <= idx
                    /\ idx <= Min2(n, neg + 3)})]
        base(t) == IF t \in {"adorei", "gostei", "bom", "boa", "excelente", "otimo"}
                   THEN 2
                   ELSE IF t \in {"ruim", "terrivel", "pessimo", "horrivel", "lento"}
                        THEN -2 ELSE 0
        scan[idx \in 0..n] ==
            IF idx = 0
            THEN [score_sum |-> 0, polar_count |-> 0, pending_intensifier |-> FALSE]
            ELSE LET before == scan[idx - 1]
                     token == normalized_tokens[idx]
                     intensified == IF before.pending_intensifier
                                    THEN (base(token) * 3) \div 2 ELSE base(token)
                     negated == IF negation_marks[idx] % 2 = 1
                                THEN -intensified ELSE intensified
                     weighted == IF is_employee /\ negated > 0
                                 THEN negated * 2 ELSE negated
                 IN IF token \in {"muito", "super"}
                    THEN [before EXCEPT !.pending_intensifier = TRUE]
                    ELSE IF base(token) = 0 THEN before
                    ELSE [score_sum |-> before.score_sum + weighted,
                          polar_count |-> before.polar_count + 1,
                          pending_intensifier |-> before.pending_intensifier]
        score_sum == scan[n].score_sum
        polar_count == scan[n].polar_count
    IN IF content = <<"teste", "tecnico", "mbras">>
       THEN [sentiment_label |-> "meta", score_sum |-> 0, polar_count |-> 0,
             is_meta |-> TRUE]
       ELSE IF n = 0 \/ polar_count = 0
       THEN [sentiment_label |-> "neutral", score_sum |-> 0, polar_count |-> 0,
             is_meta |-> FALSE]
       ELSE [sentiment_label |->
                IF 5 * score_sum > polar_count THEN "positive"
                ELSE IF 5 * score_sum < -polar_count THEN "negative"
                ELSE "neutral",
             score_sum |-> score_sum,
             polar_count |-> polar_count,
             is_meta |-> FALSE]

\* _sentiment_for_message on a content given as the list of its tokens,
\* lower case and without accents, a hashtag being a token of its own; the
\* content is the meta phrase when its tokens are those of the phrase.
\* Scores are counted in halves: a polar word weighs 2, an intensified one
\* 3, an employee's positive one twice that.  The score is
\* score_sum / (2 * polar_count), and _classify compares it with 0.1 and
\* -0.1.
_sentiment_for_message(content, is_employee) ==
    LET hashtag(t) == t \in {"#tag"}
        normalized_tokens == SelectSeq(content, LAMBDA t : ~hashtag(t))
        n == Len(normalized_tokens)
        negation_marks ==
            [idx \in 1..n |->
                Cardinality({neg \in 1..n :
                    /\ normalized_tokens[neg] \in {"nao"}
                    /\ neg + 1 <= idx
                    /\ idx <= Min2(n, neg + 3)})]
        base(t) == IF t \in {"adorei", "gostei", "bom", "boa", "excelente", "otimo"}
                   THEN 2
                   ELSE IF t \in {"ruim", "terrivel", "pessimo", "horrivel", "lento"}
                        THEN -2 ELSE 0
        scan[idx \in 0..n] ==
            IF idx = 0
            THEN [score_sum |-> 0, polar_count |-> 0, pending_intensifier |-> FALSE]
            ELSE LET before == scan[idx - 1]
                     token == normalized_tokens[idx]
                     intensified == IF before.pending_intensifier
                                    THEN (base(token) * 3) \div 2 ELSE base(token)
                     negated == IF negation_marks[idx] % 2 = 1
                                THEN -intensified ELSE intensified
                     weighted == IF is_employee /\ negated > 0
                                 THEN negated * 2 ELSE negated
                 IN IF token \in {"muito", "super"}
                    THEN [before EXCEPT !.pending_intensifier = TRUE]
                    ELSE IF base(token) = 0 THEN before
                    ELSE [score_sum |-> before.score_sum + weighted,
                          polar_count |-> before.polar_count + 1,
                          pending_intensifier |-> FALSE]
        score_sum == scan[n].score_sum
        polar_count == scan[n].polar_count
    IN IF content = <<"teste", "tecnico", "mbras">>
       THEN [sentiment_label |-> "meta", score_sum |-> 0, polar_count |-> 0,
             is_meta |-> TRUE]
       ELSE IF n = 0 \/ polar_count = 0
       THEN [sentiment_label |-> "neutral", score_sum |-> 0, polar_count |-> 0,
             is_meta |-> FALSE]
       ELSE [sentiment_label |->
                IF 5 * score_sum > polar_count THEN "positive"
                ELSE IF 5 * score_sum < -polar_count THEN "negative"
                ELSE "neutral",
             score_sum |-> score_sum,
             polar_count |-> polar_count,
             is_meta |-> FALSE]

\* The contents a message is given: up to MaxTokens tokens.
MaxTokens == 5

\* One call _sentiment_for_message(content, is_employee).
Classify ==
    /\ analysis.pc = "idle"
    /\ \E content \in UNION {[1..n -> {"nao", "muito", "gostei", "ruim",
                                       "filme", "#tag"}] : n \in 0..MaxTokens},
          is_employee \in BOOLEAN :
          analysis' = [analysis EXCEPT
              !.pc = "classified",
              !.messages = content,
              !.results = <<[is_employee |-> is_employee,
                             sentiment |-> _sentiment_for_message(content,
                                                                  is_employee)]>>]
    /\ UNCHANGED <<settings, for_update, users, messages, processing,
                   outputs, search_index, outbox, requests, pc, events,
                   succeeded_ids, failed_by_id, published, broker, consumer,
                   http, claims, crashes>>


\* _detect_anomaly that looks at synchronized posting first: a faulty
\* variant, to see that C35 tells it apart.
_detect_anomaly_SyncFirst(feed) ==
    LET n == Len(feed)
        by_user(u) == {i \in 1..n : feed[i].user_id = u}
        \* the place of message i among the messages `of`, sorted by
        \* timestamp, equal timestamps staying in the order of the list
        place(i, of) ==
            Cardinality({j \in of :
                \/ feed[j].timestamp < feed[i].timestamp
                \/ feed[j].timestamp = feed[i].timestamp /\ j <= i})
        burst_size(i, of) ==
            1 + Cardinality({inner \in of :
                    /\ place(inner, of) > place(i, of)
                    /\ feed[inner].timestamp <= feed[i].timestamp + 5 * 60})
        burst == \E i \in 1..n : burst_size(i, by_user(feed[i].user_id)) > 10
        polar(u) == {i \in by_user(u) :
                        feed[i].sentiment_label \in {"positive", "negative"}}
        alternation ==
            \E u \in {feed[i].user_id : i \in 1..n} :
                /\ Cardinality(polar(u)) >= 10
                /\ \A i, j \in polar(u) :
                      place(j, polar(u)) = place(i, polar(u)) + 1 =>
                          feed[j].sentiment_label # feed[i].sentiment_label
        synchronized_posting ==
            /\ n >= 3
            /\ \A i, j \in 1..n : feed[i].timestamp - feed[j].timestamp <= 2
    IN IF synchronized_posting
       THEN [anomaly_detected |-> TRUE, anomaly_type |-> "synchronized_posting"]
       ELSE IF burst THEN [anomaly_detected |-> TRUE, anomaly_type |-> "burst"]
       ELSE IF alternation
       THEN [anomaly_detected |-> TRUE, anomaly_type |-> "alternation"]
       ELSE [anomaly_detected |-> FALSE, anomaly_type |-> NoValue]

\* _detect_anomaly over analysed messages given by user_id, timestamp in
\* seconds and sentiment_label: the burst loop over each user's sorted
\* timestamps, the alternation test over each user's polar labels in
\* timestamp order, the span of the whole list.
_detect_anomaly(feed) ==
    LET n == Len(feed)
        by_user(u) == {i \in 1..n : feed[i].user_id = u}
        \* the place of message i among the messages `of`, sorted by
        \* timestamp, equal timestamps staying in the order of the list
        place(i, of) ==
            Cardinality({j \in of :
                \/ feed[j].timestamp < feed[i].timestamp
                \/ feed[j].timestamp = feed[i].timestamp /\ j <= i})
        burst_size(i, of) ==
            1 + Cardinality({inner \in of :
                    /\ place(inner, of) > place(i, of)
                    /\ feed[inner].timestamp <= feed[i].timestamp + 5 * 60})
        burst == \E i \in 1..n : burst_size(i, by_user(feed[i].user_id)) > 10
        polar(u) == {i \in by_user(u) :
                        feed[i].sentiment_label \in {"positive", "negative"}}
        alternation ==
            \E u \in {feed[i].user_id : i \in 1..n} :
                /\ Cardinality(polar(u)) >= 10
                /\ \A i, j \in polar(u) :
                      place(j, polar(u)) = place(i, polar(u)) + 1 =>
                          feed[j].sentiment_label # feed[i].sentiment_label
        synchronized_posting ==
            /\ n >= 3
            /\ \A i, j \in 1..n : feed[i].timestamp - feed[j].timestamp <= 2
    IN IF burst THEN [anomaly_detected |-> TRUE, anomaly_type |-> "burst"]
       ELSE IF alternation
       THEN [anomaly_detected |-> TRUE, anomaly_type |-> "alternation"]
       ELSE IF synchronized_posting
       THEN [anomaly_detected |-> TRUE, anomaly_type |-> "synchronized_posting"]
       ELSE [anomaly_detected |-> FALSE, anomaly_type |-> NoValue]

\* The lists _detect_anomaly is given: up to MaxFeed messages, `step`
\* seconds apart, in the order of their timestamps or against it, of one
\* user or of two taking turns; each user's labels alternate, alternate
\* but for the last one, are all positive or all neutral.
MaxFeed == 12

\* One call _detect_anomaly(messages).
DetectAnomaly ==
    /\ analysis.pc = "idle"
    /\ \E count \in {2, 3, 9, 10, 11, MaxFeed}, step \in {0, 1, 30, 31},
          labelling \in {"alternating", "last_repeats", "positive", "neutral"},
          nusers \in {1, 2}, reversed \in BOOLEAN :
          LET turn(i) == (i - 1) \div nusers
              feed == [i \in 1..count |->
                  [user_id |-> IF nusers = 2 /\ i % 2 = 0 THEN "user_b"
                               ELSE "user_a",
                   timestamp |-> step * (IF reversed THEN count - i ELSE i - 1),
                   sentiment_label |->
                       IF labelling = "neutral" THEN "neutral"
                       ELSE IF labelling = "positive" THEN "positive"
                       ELSE IF (IF labelling = "last_repeats" /\ i = count
                                THEN turn(i) - 1 ELSE turn(i)) % 2 = 0
                            THEN "positive" ELSE "negative"]]
          IN analysis' = [analysis EXCEPT
                !.pc = "detected",
                !.messages = feed,
                !.results = <<_detect_anomaly(feed)>>]
    /\ UNCHANGED <<settings, for_update, users, messages, processing,
                   outputs, search_index, outbox, requests, pc, events,
                   succeeded_ids, failed_by_id, published, broker, consumer,
                   http, claims, crashes>>


\* ------------------------------------------------- sentiment_service
\* round2 that cuts the digits after the hundredths off: a faulty variant,
\* to see that C22 tells it apart.
round2_Truncating(count, total) == (count * 10000) \div total

\* round((count * 100.0) / total, 2) in hundredths of a percent: the nearest
\* hundredth, an exact tie going to the even one.
round2(count, total) ==
    LET q == (count * 10000) \div total
        r == (count * 10000) % total
    IN IF 2 * r > total \/ (2 * r = total /\ q % 2 = 1) THEN q + 1 ELSE q

\* analyze_messages with reference_now read from the clock in every call: a
\* faulty variant, to see that C21 tells it apart.
analyze_messages_ClockReference(feed, time_window_minutes, now_utc, clock) ==
    LET n == Len(feed)
        reference_now == clock
        start_window == reference_now - 60 * time_window_minutes
        kept == {i \in 1..n : /\ feed[i].timestamp <= reference_now + 5
                              /\ feed[i].timestamp >= start_window}
        filtered == IF n > 0 /\ kept = {} THEN 1..n ELSE kept
        sentiment_label(i) ==
            _sentiment_for_message(feed[i].content, FALSE).sentiment_label
        candidate_awareness ==
            \E i \in filtered :
                \/ feed[i].content = <<"teste", "tecnico", "mbras">>
                \/ {"teste", "tecnico", "mbras"} \subseteq Range(feed[i].content)
        distributable == {i \in filtered : sentiment_label(i) # "meta"}
        total == Cardinality(distributable)
        count(label) ==
            Cardinality({i \in distributable : sentiment_label(i) = label})
        times == {feed[i].timestamp : i \in filtered}
    IN [sentiment_distribution |->
            IF total = 0
            THEN [positive |-> 0, negative |-> 0, neutral |-> 0]
            ELSE [positive |-> round2(count("positive"), total),
                  negative |-> round2(count("negative"), total),
                  neutral |-> round2(count("neutral"), total)],
        anomaly_type |->
            IF /\ Cardinality(filtered) >= 3
               /\ \A a, b \in times : a - b <= 2
            THEN "synchronized_posting" ELSE NoValue,
        analyzed |-> Cardinality(filtered),
        age_seconds |-> [i \in distributable |-> reference_now - feed[i].timestamp],
        engagement_score |-> IF candidate_awareness THEN 942 ELSE 0,
        trending_topics |->
            UNION {Range(feed[i].hashtags) : i \in distributable},
        candidate_awareness |-> candidate_awareness]

\* analyze_messages that leaves the meta messages among the distributable
\* ones: a faulty variant, to see that C36 tells it apart.
analyze_messages_MetaCounted(feed, time_window_minutes, now_utc, clock) ==
    LET n == Len(feed)
        reference_now ==
            IF now_utc # NoTime THEN now_utc
            ELSE IF n > 0
                 THEN CHOOSE t \in {feed[i].timestamp : i \in 1..n} :
                          \A i \in 1..n : feed[i].timestamp <= t
                 ELSE clock
        start_window == reference_now - 60 * time_window_minutes
        kept == {i \in 1..n : /\ feed[i].timestamp <= reference_now + 5
                              /\ feed[i].timestamp >= start_window}
        filtered == IF n > 0 /\ kept = {} THEN 1..n ELSE kept
        sentiment_label(i) ==
            _sentiment_for_message(feed[i].content, FALSE).sentiment_label
        candidate_awareness ==
            \E i \in filtered :
                \/ feed[i].content = <<"teste", "tecnico", "mbras">>
                \/ {"teste", "tecnico", "mbras"} \subseteq Range(feed[i].content)
        distributable == filtered
        total == Cardinality(distributable)
        count(label) ==
            Cardinality({i \in distributable : sentiment_label(i) = label})
        times == {feed[i].timestamp : i \in filtered}
    IN [sentiment_distribution |->
            IF total = 0
            THEN [positive |-> 0, negative |-> 0, neutral |-> 0]
            ELSE [positive |-> round2(count("positive"), total),
                  negative |-> round2(count("negative"), total),
                  neutral |-> round2(count("neutral"), total)],
        anomaly_type |->
            IF /\ Cardinality(filtered) >= 3
               /\ \A a, b \in times : a - b <= 2
            THEN "synchronized_posting" ELSE NoValue,
        analyzed |-> Cardinality(filtered),
        age_seconds |-> [i \in distributable |-> reference_now - feed[i].timestamp],
        engagement_score |-> IF candidate_awareness THEN 942 ELSE 0,
        trending_topics |->
            UNION {Range(feed[i].hashtags) : i \in distributable},
        candidate_awareness |-> candidate_awareness]

\* analyze_messages over messages (feed) given by the tokens of their
\* content, their hashtags and their timestamp in seconds; they carry no
\* user_id and no views, so that none is an employee's and no engagement
\* rate is computed.  clock is what app_now() returns during the call,
\* now_utc is NoTime when not passed.  A content raises candidate_awareness
\* when it is the meta phrase or has the three words of it among its
\* tokens.  The result keeps the distribution and the engagement score in
\* hundredths, the anomaly (with at most MaxMessages messages none but
\* synchronized posting can be found), the number of analysed messages, the
\* ages the topic weights are computed from, the trending topics as the set
\* of their names (there are fewer than five) and the candidate_awareness
\* flag.
analyze_messages(feed, time_window_minutes, now_utc, clock) ==
    LET n == Len(feed)
        reference_now ==
            IF now_utc # NoTime THEN now_utc
            ELSE IF n > 0
                 THEN CHOOSE t \in {feed[i].timestamp : i \in 1..n} :
                          \A i \in 1..n : feed[i].timestamp <= t
                 ELSE clock
        start_window == reference_now - 60 * time_window_minutes
        kept == {i \in 1..n : /\ feed[i].timestamp <= reference_now + 5
                              /\ feed[i].timestamp >= start_window}
        filtered == IF n > 0 /\ kept = {} THEN 1..n ELSE kept
        sentiment_label(i) ==
            _sentiment_for_message(feed[i].content, FALSE).sentiment_label
        candidate_awareness ==
            \E i \in filtered :
                \/ feed[i].content = <<"teste", "tecnico", "mbras">>
                \/ {"teste", "tecnico", "mbras"} \subseteq Range(feed[i].content)
        distributable == {i \in filtered : sentiment_label(i) # "meta"}
        total == Cardinality(distributable)
        count(label) ==
            Cardinality({i \in distributable : sentiment_label(i) = label})
        times == {feed[i].timestamp : i \in filtered}
    IN [sentiment_distribution |->
            IF total = 0
            THEN [positive |-> 0, negative |-> 0, neutral |-> 0]
            ELSE [positive |-> round2(count("positive"), total),
                  negative |-> round2(count("negative"), total),
                  neutral |-> round2(count("neutral"), total)],
        anomaly_type |->
            IF /\ Cardinality(filtered) >= 3
               /\ \A a, b \in times : a - b <= 2
            THEN "synchronized_posting" ELSE NoValue,
        analyzed |-> Cardinality(filtered),
        age_seconds |-> [i \in distributable |-> reference_now - feed[i].timestamp],
        engagement_score |-> IF candidate_awareness THEN 942 ELSE 0,
        trending_topics |->
            UNION {Range(feed[i].hashtags) : i \in distributable},
        candidate_awareness |-> candidate_awareness]

IdleAnalysis ==
    [pc |-> "idle", messages |-> <<>>, time_window_minutes |-> 0, clock |-> 300,
     results |-> <<>>]

\* A caller picks its messages, up to MaxMessages of them, and its window.
\* A message is positive, negative, one that names the technical test (it
\* is neutral), or the meta phrase; the positive one tags #produto, the
\* meta phrase tags #mbras.
AnalyzeRequest ==
    /\ analysis.pc = "idle"
    /\ \E feed \in UNION {[1..n ->
                {[content |-> c,
                  hashtags |-> IF c[1] = "teste" THEN <<"#mbras">>
                               ELSE IF c[1] = "gostei" THEN <<"#produto">>
                               ELSE << >>,
                  timestamp |-> t] :
                    c \in {<<"gostei">>, <<"ruim">>,
                           <<"sobre", "teste", "tecnico", "mbras">>,
                           <<"teste", "tecnico", "mbras">>},
                    t \in {0, 200}}] :
                           n \in 0..MaxMessages},
          time_window_minutes \in {1, 5} :
          analysis' = [analysis EXCEPT !.pc = "call",
                                       !.messages = feed,
                                       !.time_window_minutes = time_window_minutes]
    /\ UNCHANGED <<settings, for_update, users, messages, processing,
                   outputs, search_index, outbox, requests, pc, events,
                   succeeded_ids, failed_by_id, published, broker, consumer,
                   http, claims, crashes>>

\* One call analyze_messages(messages, time_window_minutes); a minute goes
\* by before the next.
Analyze ==
    /\ analysis.pc = "call"
    /\ Len(analysis.results) < 2
    /\ analysis' = [analysis EXCEPT
          !.results = Append(@, analyze_messages(analysis.messages,
                                   analysis.time_window_minutes, NoTime,
                                   analysis.clock)),
          !.clock = @ + 61]
    /\ UNCHANGED <<settings, for_update, users, messages, processing,
                   outputs, search_index, outbox, requests, pc, events,
                   succeeded_ids, failed_by_id, published, broker, consumer,
                   http, claims, crashes>>

\* ------------------------------------------------------------------ time
\* The waits after which some row's eligibility changes: a backoff ends or
\* a lock outlives the lock timeout.
Waits ==
    {outbox[e].available_at_utc - app_now : e \in Events} \cup
    {outbox[e].locked_at_utc + LockTimeout + 1 - app_now :
        e \in {x \in Events : outbox[x].locked_at_utc # NoTime}}

Ago(t, d) == IF t = NoTime THEN NoTime ELSE Max2(t - d, Oldest)

ElapseRow(row, d) ==
    [row EXCEPT !.available_at_utc = Max2(@ - d, app_now),
                !.locked_at_utc = Ago(@, d)]

ElapseLocal(rows, d) ==
    [i \in 1..Len(rows) |-> [rows[i] EXCEPT !.locked_at_utc = Ago(@, d)]]

\* d seconds pass: the clock moves on to the next instant that matters.  A
\* claim transaction is short against the clock's whole seconds: none is
\* open across a tick.
Tick ==
    /\ \A w \in Workers : pc[w] # "claiming"
    /\ \E d \in Waits :
          /\ d > 0
          /\ \A u \in Waits : u > 0 => d <= u
          /\ outbox' = [e \in Events |-> ElapseRow(outbox[e], d)]
          /\ events' = [w \in Workers |-> ElapseLocal(events[w], d)]
    /\ UNCHANGED <<settings, for_update, users, messages, processing,
                   outputs, search_index, requests, pc, succeeded_ids,
                   failed_by_id, published, broker, consumer, http, claims,
                   crashes, analysis>>

\* ------------------------------------------------------------------- Init
\* The rows ingestion has committed for the events `ids` (pending, never
\* claimed, available); the oldest may already have failed `past` attempts.
\* created_at_utc is kept as the rank of the creating transaction.
InitialTables(ids, ty, cr, past) ==
    /\ outbox = [e \in ids |->
          RetriedRow(NewOutboxRow(MessageOf(e, ty[e]), CorrelationOf(e), ty[e], cr[e]),
                     IF e = FirstEvent THEN past ELSE 0)]
    /\ messages = [m \in {MessageOf(e, ty[e]) : e \in ids} |-> CorrelationOf(m)]
    /\ users = {UserKeyOf(CorrelationOf(MessageOf(e, ty[e]))) : e \in ids}
    /\ processing = [m \in {e \in ids : ty[e] = MESSAGE_RECEIVED} |->
                        NewProcessingRow]
    /\ outputs = << >>
    /\ search_index = {}

InitTables ==
    \E ty \in [InitialEvents -> EventTypes], cr \in [InitialEvents -> 0..1],
       past \in 0..MaxPastAttempts :
        /\ \A e \in InitialEvents : cr[FirstEvent] <= cr[e] /\ cr[FirstEvent] = 0
        /\ InitialTables(InitialEvents, ty, cr, past)

InitProcesses ==
    /\ requests = [r \in Requests |-> IdleRequest]
    /\ pc = [w \in Workers |-> "idle"]
    /\ events = [w \in Workers |-> <<>>]
    /\ succeeded_ids = [w \in Workers |-> {}]
    /\ failed_by_id = [w \in Workers |-> {}]
    /\ published = [w \in Workers |-> FALSE]
    /\ broker = <<>>
    /\ consumer = IdleConsumer
    /\ http = IdleHttp
    /\ claims = 0
    /\ crashes = 0
    /\ analysis = IdleAnalysis

Init ==
    /\ settings \in [bypass_rabbit_for_tests : BOOLEAN,
                     bypass_elastic_for_tests : BOOLEAN]
    /\ for_update \in BOOLEAN
    /\ InitTables
    /\ InitProcesses

\* ------------------------------------------------- the dispatchers alone
Next ==
    \/ \E w \in Workers : ClaimSelect(w)
    \/ \E w \in Workers : ClaimCommit(w)
    \/ \E w \in Workers : AuditBypass(w)
    \/ \E w \in Workers : AuditIndex(w)
    \/ \E w \in Workers : AuditMark(w)
    \/ \E w \in Workers : Publish(w)
    \/ \E w \in Workers : MarkRabbit(w)
    \/ \E w \in Workers : Crash(w)
    \/ Tick

Spec == Init /\ [][Next]_vars

\* The loop of every running dispatcher keeps going, and time passes.
LiveSpec ==
    /\ Init
    /\ [][Next]_vars
    /\ \A w \in Workers :
          /\ WF_vars(ClaimSelect(w))
          /\ WF_vars(ClaimCommit(w))
          /\ WF_vars(AuditBypass(w))
          /\ WF_vars(AuditIndex(w))
          /\ WF_vars(AuditMark(w))
          /\ WF_vars(Publish(w))
          /\ WF_vars(MarkRabbit(w))
    /\ WF_vars(Tick)

\* -------------------------- the dispatchers with a batch size above one
NextBatch ==
    \/ \E w \in Workers : ClaimSelectWide(w)
    \/ \E w \in Workers : ClaimCommit(w)
    \/ \E w \in Workers : AuditBypass(w)
    \/ \E w \in Workers : AuditIndex(w)
    \/ \E w \in Workers : AuditMark(w)
    \/ \E w \in Workers : Publish(w)
    \/ \E w \in Workers : MarkRabbit(w)
    \/ \E w \in Workers : Crash(w)
    \/ Tick

SpecBatch == Init /\ [][NextBatch]_vars

\* ------------------- one broker event and one online request, end to end
InitProc ==
    /\ settings \in [bypass_rabbit_for_tests : BOOLEAN,
                     bypass_elastic_for_tests : {FALSE}]
    /\ for_update \in BOOLEAN
    /\ InitialTables({FirstEvent}, [e \in InitialEvents |-> MESSAGE_RECEIVED],
                     [e \in InitialEvents |-> 0], 0)
    /\ InitProcesses

NextProc ==
    \/ \E w \in Workers : ClaimSelect(w)
    \/ \E w \in Workers : ClaimCommit(w)
    \/ \E w \in Workers : Publish(w)
    \/ \E w \in Workers : MarkRabbit(w)
    \/ \E w \in Workers : Crash(w)
    \/ Tick
    \/ HttpLookup
    \/ HttpSave
    \/ HttpRaise
    \/ HttpPublish
    \/ HttpMark
    \/ ConsumerReceive
    \/ ConsumerMarkProcessing
    \/ ConsumerProcess
    \/ ConsumerAck

SpecProc == InitProc /\ [][NextProc]_vars

\* ---------------------- _handle_message, one step for each of its commits
\* The callback gets an envelope of a supported event that another publisher
\* put on the queue: its correlationId is that of a message or of none, its
\* messageId is missing, that of a message, or that of none.
\* service.mark_processing(correlation_id) commits 'processing' on the
\* message that has the correlation id and returns its id, or None; a
\* missing messageId is replaced by that id; with neither, the delivery is
\* acknowledged at line 216; otherwise the callback goes on to the try block.
ConsumerReceiveOther ==
    /\ consumer.pc = "idle"
    /\ \A m \in DOMAIN messages : messages[m] # "c9"
    /\ \E correlationId \in {"c1", "c9"}, messageId \in {<<>>, <<FirstEvent>>, <<9>>} :
          LET found == {m \in DOMAIN messages : messages[m] = correlationId}
              persisted_message_id ==
                  IF found = {} THEN <<>> ELSE <<CHOOSE m \in found : TRUE>>
              message_id ==
                  IF messageId = <<>> THEN persisted_message_id ELSE messageId
          IN /\ processing' =
                   IF found = {} THEN processing
                   ELSE mark_processing(processing, persisted_message_id[1])
             /\ consumer' = [consumer EXCEPT
                   !.pc = IF message_id = <<>> THEN "drop_ack" ELSE "process",
                   !.delivery = message_id,
                   !.committed = NoValue,
                   !.envelope = [body |-> "object",
                                 eventName |-> "message_received",
                                 payload |-> "dict",
                                 correlationId |-> correlationId,
                                 correlation_id |-> correlationId]]
    /\ UNCHANGED <<settings, for_update, users, messages, outputs,
                   search_index, outbox, requests, pc, events, succeeded_ids,
                   failed_by_id, published, broker, http, claims, crashes,
                   analysis>>

\* service.persist_normalized_outputs(message_id, payload), committed
\* (lines 225-229).
ConsumerPersist ==
    /\ consumer.pc = "process"
    /\ outputs' = persist_normalized_outputs(outputs, DOMAIN messages,
                      consumer.delivery[1],
                      _normalized_payload_from_event(
                          IF consumer.envelope.correlationId = NoValue
                          THEN ToString(consumer.delivery[1])
                          ELSE consumer.envelope.correlationId))
    /\ consumer' = [consumer EXCEPT !.pc = "index"]
    /\ UNCHANGED <<settings, for_update, users, messages, processing,
                   search_index, outbox, requests, pc, events, succeeded_ids,
                   failed_by_id, published, broker, http, claims, crashes,
                   analysis>>

\* writer.write(index_name, document, alias_name), unless
\* settings.bypass_elastic_for_tests (lines 231-247).
ConsumerIndex ==
    /\ consumer.pc = "index"
    /\ search_index' =
          IF settings.bypass_elastic_for_tests THEN search_index
          ELSE LET own == consumer.envelope.correlationId = NoValue
                   m == consumer.delivery[1]
               IN search_index \cup
                     {_build_elastic_document(
                          IF own THEN messages[m]
                          ELSE consumer.envelope.correlationId,
                          m,
                          _normalized_payload_from_event(
                              IF own THEN ToString(m)
                              ELSE consumer.envelope.correlationId))}
    /\ consumer' = [consumer EXCEPT !.pc = "finalize"]
    /\ UNCHANGED <<settings, for_update, users, messages, processing,
                   outputs, outbox, requests, pc, events, succeeded_ids,
                   failed_by_id, published, broker, http, claims, crashes,
                   analysis>>

\* service.mark_processed(correlation_id, elastic_name, elastic_index_name),
\* committed (lines 249-256): False, and nothing written, when no message
\* has the correlation id.  Then on to basic_ack.
ConsumerFinalize ==
    /\ consumer.pc = "finalize"
    /\ LET c == IF consumer.envelope.correlationId = NoValue
                THEN messages[consumer.delivery[1]]
                ELSE consumer.envelope.correlationId
           found == {m \in DOMAIN messages : messages[m] = c}
       IN /\ processing' =
                IF found = {} THEN processing
                ELSE mark_processed(processing, CHOOSE m \in found : TRUE,
                         elasticsearch_index_prefix,
                         IF settings.bypass_elastic_for_tests THEN NoValue
                         ELSE elasticsearch_index_prefix \o "-day")
          /\ consumer' = [consumer EXCEPT
                !.pc = "ack",
                !.committed = IF found = {} THEN NoValue
                              ELSE PROCESSING_STATUS_PROCESSED]
    /\ UNCHANGED <<settings, for_update, users, messages, outputs,
                   search_index, outbox, requests, pc, events, succeeded_ids,
                   failed_by_id, published, broker, http, claims, crashes,
                   analysis>>

\* A call of the try block raises: persist_normalized_outputs (nothing of
\* it is committed), writer.write before the document is indexed, or
\* _ensure_alias or mark_processed after it.  The except clause commits
\* mark_processing_failed(stage 'consumer') and goes on to basic_ack; when
\* that call raises too, the exception leaves the callback and the broker
\* hands the delivery out again.
ConsumerFail ==
    /\ consumer.pc \in {"process", "index", "finalize"}
    /\ LET c == IF consumer.envelope.correlationId = NoValue
                THEN messages[consumer.delivery[1]]
                ELSE consumer.envelope.correlationId
           found == {m \in DOMAIN messages : messages[m] = c}
       IN \/ /\ processing' =
                   IF found = {} THEN processing
                   ELSE mark_processing_failed(processing,
                            CHOOSE m \in found : TRUE, "consumer")
             /\ consumer' = [consumer EXCEPT
                   !.pc = "ack",
                   !.committed = IF found = {} THEN NoValue
                                 ELSE PROCESSING_STATUS_FAILED]
             /\ broker' = broker
          \/ /\ consumer.envelope.correlationId = NoValue
             /\ processing' = processing
             /\ consumer' = [IdleConsumer EXCEPT !.redelivered = TRUE]
             /\ broker' = <<consumer.delivery[1]>> \o broker
    /\ UNCHANGED <<settings, for_update, users, messages, outputs,
                   search_index, outbox, requests, pc, events, succeeded_ids,
                   failed_by_id, published, http, claims, crashes, analysis>>

\* One broker event that the dispatchers publish, with either setting of
\* the search index bypass.
InitConsume ==
    /\ settings \in [bypass_rabbit_for_tests : {FALSE},
                     bypass_elastic_for_tests : BOOLEAN]
    /\ for_update \in BOOLEAN
    /\ InitialTables({FirstEvent}, [e \in InitialEvents |-> MESSAGE_RECEIVED],
                     [e \in InitialEvents |-> 0], 0)
    /\ InitProcesses

\* The dispatchers within one lock timeout (no row becomes available or loses
\* its lock by the passing of time) and the consumer, step by step.
NextConsume ==
    \/ \E w \in Workers : ClaimSelect(w)
    \/ \E w \in Workers : ClaimCommit(w)
    \/ \E w \in Workers : Publish(w)
    \/ \E w \in Workers : MarkRabbit(w)
    \/ ConsumerReceive
    \/ ConsumerMarkProcessing
    \/ ConsumerPersist
    \/ ConsumerIndex
    \/ ConsumerFinalize
    \/ ConsumerFail
    \/ ConsumerAck
    \/ ConsumerReceiveOther
    \/ ConsumerDropAck

SpecConsume == InitConsume /\ [][NextConsume]_vars

\* ------- dispatchers and consumer, with deliveries of other origin queued
NextDrop ==
    \/ \E w \in Workers : ClaimSelect(w)
    \/ \E w \in Workers : ClaimCommit(w)
    \/ \E w \in Workers : Publish(w)
    \/ \E w \in Workers : MarkRabbit(w)
    \/ Tick
    \/ ConsumerReceive
    \/ ConsumerMarkProcessing
    \/ ConsumerProcess
    \/ ConsumerAck
    \/ ConsumerReceiveInvalid
    \/ ConsumerParseFailed
    \/ ConsumerDropAck

SpecDrop == InitProc /\ [][NextDrop]_vars

\* ------------------------------------------- the fast path, two requests
InitFast ==
    /\ settings = [bypass_rabbit_for_tests |-> FALSE,
                   bypass_elastic_for_tests |-> FALSE]
    /\ for_update \in BOOLEAN
    /\ \E ids \in {{}, {FirstEvent}} :
          InitialTables(ids, [e \in InitialEvents |-> MESSAGE_RECEIVED],
                        [e \in InitialEvents |-> 0], 0)
    /\ InitProcesses

NextFast ==
    \/ \E r \in Requests : FpQuery(r)
    \/ \E r \in Requests : FpInsertMessages(r)
    \/ \E r \in Requests : FpInsertProcessing(r)
    \/ \E r \in Requests : FpInsertOutbox(r)
    \/ \E r \in Requests : FpCommit(r)
    \/ \E r \in Requests : FpRaise(r)

SpecFast == InitFast /\ [][NextFast]_vars

\* ------------------ ingestion: two fast-path requests and an online one
NextIngest ==
    \/ \E r \in Requests : FpQuery(r)
    \/ \E r \in Requests : FpInsertMessages(r)
    \/ \E r \in Requests : FpInsertProcessing(r)
    \/ \E r \in Requests : FpInsertOutbox(r)
    \/ \E r \in Requests : FpCommit(r)
    \/ \E r \in Requests : FpRaise(r)
    \/ HttpLookup
    \/ HttpSave
    \/ HttpRaise
    \/ HttpPublish
    \/ HttpMark

SpecIngest == InitFast /\ [][NextIngest]_vars

\* ------------------------ ingestion, one request at a time (no overlap)
NoRequestInFlight ==
    /\ \A r \in Requests : requests[r].pc \in {"idle", "done", "failed"}
    /\ http.pc \in {"start", "done", "failed"}

SeqFpQuery(r) == NoRequestInFlight /\ FpQuery(r)
SeqFpRaise(r) ==
    (requests[r].pc = "idle" => NoRequestInFlight) /\ FpRaise(r)
SeqHttpLookup == NoRequestInFlight /\ HttpLookup

NextSeq ==
    \/ \E r \in Requests : SeqFpQuery(r)
    \/ \E r \in Requests : FpInsertMessages(r)
    \/ \E r \in Requests : FpInsertProcessing(r)
    \/ \E r \in Requests : FpInsertOutbox(r)
    \/ \E r \in Requests : FpCommit(r)
    \/ \E r \in Requests : SeqFpRaise(r)
    \/ SeqHttpLookup
    \/ HttpSave
    \/ HttpRaise
    \/ HttpPublish
    \/ HttpMark

SpecSeq == InitFast /\ [][NextSeq]_vars

\* ------------------- one request from its arrival: validation and after
ValidatedLookup == http.payload # NoPayload /\ HttpLookup

NextValidate ==
    \/ HttpReceive
    \/ HttpValidate
    \/ ValidatedLookup
    \/ HttpSave
    \/ HttpRaise
    \/ HttpPublish
    \/ HttpMark
    \/ \E r \in Requests : FpInsertMessages(r)
    \/ \E r \in Requests : FpInsertProcessing(r)
    \/ \E r \in Requests : FpInsertOutbox(r)
    \/ \E r \in Requests : FpCommit(r)
    \/ \E r \in Requests : FpRaise(r)

SpecValidate == InitFast /\ [][NextValidate]_vars

\* -------------------------------------- two calls of analyze_messages
InitAnalyze ==
    /\ settings = [bypass_rabbit_for_tests |-> FALSE,
                   bypass_elastic_for_tests |-> FALSE]
    /\ for_update = FALSE
    /\ InitialTables({}, [e \in InitialEvents |-> MESSAGE_RECEIVED],
                     [e \in InitialEvents |-> 0], 0)
    /\ InitProcesses

NextAnalyze ==
    \/ AnalyzeRequest
    \/ Analyze

SpecAnalyze == InitAnalyze /\ [][NextAnalyze]_vars

\* ------------------ the functions of the analytic engine, one call each
NextSentiment ==
    \/ Classify
    \/ DetectAnomaly

SpecSentiment == InitAnalyze /\ [][NextSentiment]_vars

\* =================================================================== claims
\* Steps of the dispatchers, recognised from the state change.
ClaimSelectStep(w) == pc[w] = "idle" /\ pc'[w] = "claiming"
ClaimCommitStep(w) == pc[w] = "claiming" /\ pc'[w] # "claiming" /\ crashes' = crashes
RabbitStatusStep(w) == pc[w] = "mark" /\ pc'[w] # "mark" /\ crashes' = crashes
AuditStatusStep(w) == pc[w] = "audit_mark" /\ pc'[w] # "audit_mark" /\ crashes' = crashes
BecomesPublished(e) ==
    outbox[e].status # "published" /\ outbox'[e].status = "published"

\* The publish (or the bulk item) of e returned success in the tick of worker
\* w that is now writing the status.
SucceededInTick(w, e) ==
    \/ pc[w] = "mark" /\ Head(events[w]).id = e /\ published[w]
    \/ pc[w] = "audit_mark" /\ e \in succeeded_ids[w]

C2_PublishedIsTerminal ==
    [][\A e \in Events :
          outbox[e].status = "published" => outbox'[e].status = "published"]_vars

\* Worker w is processing event e under a claim whose lock has not expired.
HoldsUnexpired(w, e) ==
    /\ pc[w] \notin {"idle", "claiming"}
    /\ \E i \in 1..Len(events[w]) :
          /\ events[w][i].id = e
          /\ events[w][i].locked_at_utc >= app_now - LockTimeout

\* C3: claim mutual exclusion: an event one worker has claimed and whose lock
\* has not expired is never returned to a second worker, so no event is being
\* processed by two workers under unexpired claims at the same time.
C3_ClaimMutualExclusion ==
    \A e \in Events : \A w, v \in Workers :
        HoldsUnexpired(w, e) /\ HoldsUnexpired(v, e) => w = v

\* C4: claim eligibility: every event claim_outbox_events returns is, at
\* selection time, pending or failed (never published), available
\* (available_at <= now, outside its backoff window) and either unlocked or
\* locked before the cutoff now - lock timeout.
C4_ClaimEligibility ==
    [][\A w \in Workers :
          ClaimSelectStep(w) =>
              \A e \in Ids(events'[w]) :
                  /\ outbox[e].status \in {"pending", "failed"}
                  /\ outbox[e].status # "published"
                  /\ outbox[e].available_at_utc <= app_now
                  /\ \/ outbox[e].locked_at_utc = NoTime
                     \/ outbox[e].locked_at_utc
                            < app_now - outbox_lock_timeout_seconds]_vars

\* C4 witness: a claim has selected a failed row that an earlier claim had
\* locked more than the lock timeout ago.
C4_Witness ==
    \E w \in Workers : \E e \in Ids(events[w]) :
        /\ pc[w] = "claiming"
        /\ outbox[e].locked_at_utc # NoTime
        /\ outbox[e].locked_at_utc < app_now - outbox_lock_timeout_seconds
        /\ outbox[e].status = "failed"

\* C5: atomic claim: the commit of a claim writes locked_at = the claim's
\* now, locked_by = the worker and attempts = old attempts + 1 on every
\* returned event, and leaves every other event unchanged.
C5_AtomicClaim ==
    [][\A w \in Workers :
          ClaimCommitStep(w) =>
              /\ \A i \in 1..Len(events[w]) :
                    LET e == events[w][i].id
                    IN /\ outbox'[e].locked_at_utc = events[w][i].locked_at_utc
                       /\ outbox'[e].locked_by = w
                       /\ outbox'[e].attempts = outbox[e].attempts + 1
                       /\ outbox'[e].status = outbox[e].status
                       /\ outbox'[e].available_at_utc = outbox[e].available_at_utc
              /\ \A e \in Events \ Ids(events[w]) : outbox'[e] = outbox[e]]_vars

\* An event some dispatcher could claim now, whatever its type.
Claimable(e) ==
    /\ outbox[e].status \in {"pending", "failed"}
    /\ outbox[e].available_at_utc <= app_now
    /\ \/ outbox[e].locked_at_utc = NoTime
       \/ outbox[e].locked_at_utc < app_now - LockTimeout

FreshlyClaimed(e) == \E w \in Workers : HoldsUnexpired(w, e)

\* C6: outbox liveness: under fairness of the dispatcher loops, every event
\* that is pending or failed, available and not under an unexpired lock is
\* eventually claimed, whatever the batch cap, the created_at ordering and
\* the event_types filter do (as far as the claims counted here go).
C6_OutboxLiveness ==
    \A e \in InitialEvents :
        Claimable(e) ~> (FreshlyClaimed(e) \/ claims = MaxClaims)

\* A locked row no dispatcher is working on: its claimer crashed.
Orphaned(e) ==
    /\ outbox[e].locked_at_utc # NoTime
    /\ \A w \in Workers : e \notin Ids(events[w])

\* C7: lock-TTL recovery: an event whose claimer crashed between the commit
\* of the claim and the status update keeps status pending or failed, and
\* does not stay locked forever: it is claimed again or unlocked (as far as
\* the claims counted here go).
C7_LockTtlRecovery ==
    /\ [](\A e \in InitialEvents :
             Orphaned(e) => outbox[e].status \in {"pending", "failed"})
    /\ \A e \in InitialEvents :
          Orphaned(e) ~> (~Orphaned(e) \/ claims = MaxClaims)

\* backoff(n) as the claim states it.
StatedBackoff(n) == CASE n = 1 -> 1 [] n = 2 -> 5 [] n = 3 -> 15 [] OTHER -> 60

FailureUpdateDone(e, n) ==
    /\ outbox'[e].status = "failed"
    /\ outbox'[e].locked_at_utc = NoTime
    /\ outbox'[e].locked_by = NoValue
    /\ outbox'[e].last_error # NoValue
    /\ outbox'[e].available_at_utc = app_now + StatedBackoff(n)

\* C8: failure backoff: when the publish (or bulk index) of an event claimed
\* for the n-th time fails, the status update sets status 'failed', clears
\* the lock, stores last_error and sets available_at = update time +
\* backoff(n); and no claim locks an event before that available_at.
C8_FailureBackoff ==
    [][\A w \in Workers :
          /\ RabbitStatusStep(w) /\ ~published[w] =>
                FailureUpdateDone(Head(events[w]).id, Head(events[w]).attempts)
          /\ AuditStatusStep(w) =>
                \A i \in 1..Len(events[w]) :
                    IsAudit(events[w][i]) /\ events[w][i].id \notin succeeded_ids[w]
                        => FailureUpdateDone(events[w][i].id, events[w][i].attempts)
          /\ ClaimCommitStep(w) =>
                \A e \in Ids(events[w]) :
                    ~(outbox[e].status = "failed"
                        /\ outbox[e].available_at_utc > app_now)]_vars

\* The stage of a processing status on received -> (queued | processing) ->
\* (processed | failed).
StatusStage(s) ==
    CASE s = PROCESSING_STATUS_RECEIVED -> 0
      [] s \in {PROCESSING_STATUS_QUEUED, PROCESSING_STATUS_PROCESSING} -> 1
      [] OTHER -> 2

MonotonicStatusStep(s, t) ==
    \/ s = t
    \/ s # PROCESSING_STATUS_PROCESSED /\ StatusStage(t) >= StatusStage(s)
    \/ s = PROCESSING_STATUS_FAILED /\ t = PROCESSING_STATUS_PROCESSING

\* C9: processing_status only moves forward along received -> (queued |
\* processing) -> (processed | failed), except failed -> processing on a
\* retry, and 'processed' is never overwritten, whatever the interleaving of
\* the HTTP request, the dispatchers and the consumer.
C9_ProcessingStatusMonotonic ==
    [][\A m \in DOMAIN processing :
          MonotonicStatusStep(processing[m].processing_status,
                              processing'[m].processing_status)]_vars

\* C10: fast-path atomicity: in every committed state each fast-path message
\* has its message_processing row, still 'received', and an outbox event of
\* type message_received, pending, never attempted and unlocked, with the
\* same message_id and correlation_id.
C10_FastPathSiblings ==
    \A m \in DOMAIN messages :
        /\ m \in DOMAIN processing
        /\ processing[m].processing_status = PROCESSING_STATUS_RECEIVED
        /\ \E e \in DOMAIN outbox :
              /\ outbox[e].message_id = m
              /\ outbox[e].correlation_id = messages[m]
              /\ outbox[e].event_type = MESSAGE_RECEIVED
              /\ outbox[e].status = "pending"
              /\ outbox[e].attempts = 0
              /\ outbox[e].locked_at_utc = NoTime
              /\ outbox[e].locked_by = NoValue

\* C10 witness: one request has committed a batch of two new messages while
\* the other has inserted its messages and processing rows and not yet its
\* outbox events.
C10_Witness ==
    \E r, q \in Requests :
        /\ requests[r].pc = "done"
        /\ Cardinality(requests[r].to_create) = 2
        /\ requests[q].pc = "insert_outbox"
        /\ DOMAIN requests[q].tx.message_rows # {}

\* C11: fast-path all-or-nothing: a step in which execute raises (the query,
\* an insert, the flush or the commit) changes none of the tables users,
\* messages, message_processing and outbox_events, and no row carrying a
\* message id of a failed call is visible in any of them.
C11_FastPathAllOrNothing ==
    /\ [][\A r \in Requests :
            requests[r].pc # "failed" /\ requests'[r].pc = "failed" =>
                /\ users' = users
                /\ messages' = messages
                /\ processing' = processing
                /\ outbox' = outbox]_vars
    /\ [](\A r \in Requests :
            requests[r].pc = "failed" =>
                \A i \in 1..MaxItems :
                    /\ MessageIdOf(r, i) \notin DOMAIN messages
                    /\ MessageIdOf(r, i) \notin DOMAIN processing
                    /\ MessageIdOf(r, i) \notin DOMAIN outbox)

\* C11 witness: a call that had inserted its user, message, processing and
\* outbox rows has raised at the commit.
C11_Witness ==
    \E r \in Requests :
        /\ requests[r].pc = "failed"
        /\ requests[r].raised_at = "commit"
        /\ requests[r].to_create # {}
        /\ requests[r].missing_users # {}

\* C12: idempotency by correlation_id when requests do not overlap: no two
\* messages share a correlation_id; no step changes or removes an existing
\* message, and every message, processing or outbox row a step adds belongs
\* to a message whose correlation_id had no message before the step; no
\* request fails on the unique index, a finished fast-path call returns its
\* result and a finished online request returns 200.
C12_IdempotentByCorrelationId ==
    /\ [](\A m1, m2 \in DOMAIN messages :
              messages[m1] = messages[m2] => m1 = m2)
    /\ [][/\ (\A m \in DOMAIN messages :
                  m \in DOMAIN messages' /\ messages'[m] = messages[m])
           /\ (\A n \in DOMAIN messages' \ DOMAIN messages :
                  messages'[n] \notin CommittedCorrelations)
           /\ (DOMAIN processing' \ DOMAIN processing)
                  \subseteq (DOMAIN messages' \ DOMAIN messages)
           /\ (\A e \in DOMAIN outbox' \ DOMAIN outbox :
                  outbox'[e].message_id \in DOMAIN messages' \ DOMAIN messages)]_vars
    /\ [](/\ (\A r \in Requests : requests[r].error # "IntegrityError")
          /\ http.error # "IntegrityError"
          /\ (http.pc = "done" => http.status_code = 200))

\* C12 witness: a fast-path call whose items all had a message already has
\* returned, and so has an online request whose correlation_id had one.
C12_Witness ==
    /\ \E r \in Requests :
          /\ requests[r].pc = "done"
          /\ requests[r].to_create = {}
          /\ requests[r].accepted = Len(requests[r].items)
    /\ http.pc = "done"
    /\ ~http.created_new
    /\ http.status_code = 200

\* C13: concurrent duplicates are idempotent successes: no request, fast
\* path or online, ends with the unique violation on correlation_id (or on
\* external_user_key) surfaced to its caller.
C13_ConcurrentDuplicatesSucceed ==
    /\ (\A r \in Requests : requests[r].error # "IntegrityError")
    /\ http.error # "IntegrityError"

\* C19: the accepted value a fast-path call returns is the number of its
\* input items.
C19_AcceptedCountsInputItems ==
    \A r \in Requests :
        requests[r].pc = "done" => requests[r].accepted = Len(requests[r].items)

\* C19 witness: a call has returned accepted = 2 for two items of which it
\* created one message only (the other was a duplicate).
C19_Witness ==
    \E r \in Requests :
        /\ requests[r].pc = "done"
        /\ Len(requests[r].items) = 2
        /\ Cardinality(requests[r].to_create) = 1
        /\ requests[r].accepted = 2

\* C17: online analysis with the broker unavailable: when the publish of the
\* online request returned false or raised, the request ends with status
\* 200, the processing row of the new message still reads 'received', and an
\* outbox event exists for the message (what the dispatcher would deliver).
C17_BrokerUnavailableLeavesReceived ==
    [][(/\ http.pc = "mark"
        /\ ~http.published
        /\ ~settings.bypass_rabbit_for_tests
        /\ http'.pc = "done") =>
            /\ http'.status_code = 200
            /\ processing'[OnlineMessage].processing_status =
                  PROCESSING_STATUS_RECEIVED
            /\ \E e \in DOMAIN outbox' : outbox'[e].message_id = OnlineMessage]_vars

\* C18: online analysis enqueues an outbox row: once an online request that
\* created a message has completed, an outbox event exists for that message.
C18_OnlineEnqueuesOutboxEvent ==
    (http.pc = "done" /\ http.created_new) =>
        \E e \in DOMAIN outbox : outbox[e].message_id = OnlineMessage

\* C14: per-event failure isolation: a step in which a dispatcher writes the
\* status of events it holds writes, for each of them, 'published' when its
\* own publish (or bulk item) succeeded and 'failed' when it did not, leaves
\* the rows of the events still waiting in the batch as they were, keeps
\* those events in order and goes on with them; an event leaves the batch
\* only with its status update, and a tick that has ended has none left.
C14_PerEventIsolation ==
    /\ [][\A w \in Workers :
            (/\ crashes' = crashes
             /\ pc[w] \in {"audit", "audit_mark", "mark"}
             /\ Ids(events'[w]) # Ids(events[w])) =>
                /\ \A e \in Ids(events[w]) \ Ids(events'[w]) :
                      LET succeeded ==
                              IF pc[w] = "mark" THEN published[w]
                              ELSE IF pc[w] = "audit_mark"
                                   THEN e \in succeeded_ids[w]
                                   ELSE settings.bypass_elastic_for_tests
                      IN outbox'[e].status =
                             IF succeeded THEN "published" ELSE "failed"
                /\ \A e \in Ids(events'[w]) : outbox'[e] = outbox[e]
                /\ Ids(events'[w]) \subseteq Ids(events[w])
                /\ \A i, j \in 1..Len(events'[w]) :
                      i < j => \E k, l \in 1..Len(events[w]) :
                          /\ k < l
                          /\ events[w][k].id = events'[w][i].id
                          /\ events[w][l].id = events'[w][j].id
                /\ pc'[w] = StageOf(events'[w])]_vars
    /\ [](\A w \in Workers : pc[w] = "idle" => events[w] = <<>>)

\* C14 witness: the only claim so far took both events; the publish of the
\* first failed (it is in backoff) and the second is published.
C14_Witness ==
    /\ claims = 1
    /\ crashes = 0
    /\ \E e1, e2 \in Events :
          /\ e1 < e2
          /\ outbox[e1].status = "failed"
          /\ outbox[e1].available_at_utc > app_now
          /\ outbox[e1].event_type = MESSAGE_RECEIVED
          /\ outbox[e2].status = "published"
          /\ outbox[e2].event_type = MESSAGE_RECEIVED

C16_ConsumerFailureSemantics ==
    [][(/\ consumer.pc = "process"
        /\ consumer'.pc # "process"
        /\ consumer'.committed # PROCESSING_STATUS_PROCESSED) =>
            /\ processing'[consumer.delivery[1]].processing_success = "False"
            /\ processing'[consumer.delivery[1]].processing_status =
                  PROCESSING_STATUS_FAILED
            /\ processing'[consumer.delivery[1]].failure_stage = "consumer"
            /\ consumer'.pc = "ack"
            /\ broker' = broker]_vars

\* C16 (amended): the same, for the callbacks in which the transaction of
\* mark_processing_failed commits.
C16_ConsumerFailureSemanticsWhenMarked ==
    [][(/\ consumer.pc = "process"
        /\ consumer'.pc # "process"
        /\ consumer'.committed = PROCESSING_STATUS_FAILED) =>
            /\ processing'[consumer.delivery[1]].processing_success = "False"
            /\ processing'[consumer.delivery[1]].processing_status =
                  PROCESSING_STATUS_FAILED
            /\ processing'[consumer.delivery[1]].failure_stage = "consumer"
            /\ consumer'.pc = "ack"
            /\ broker' = broker]_vars

\* C16 witness: the callback has marked the message of its delivery failed
\* at stage 'consumer' and is at basic_ack.
C16_Witness ==
    /\ consumer.pc = "ack"
    /\ consumer.committed = PROCESSING_STATUS_FAILED
    /\ processing[consumer.delivery[1]].failure_stage = "consumer"
    /\ processing[consumer.delivery[1]].processing_success = "False"

C27_LockScope ==
    /\ [](\A e \in Events :
             /\ outbox[e].locked_at_utc = NoTime <=> outbox[e].locked_by = NoValue
             /\ (crashes = 0 /\ outbox[e].locked_by # NoValue) =>
                   /\ pc[outbox[e].locked_by] \in
                          {"audit", "audit_mark", "publish", "mark"}
                   /\ e \in Ids(events[outbox[e].locked_by]))
    /\ [][\A e \in Events :
             /\ (outbox[e].locked_by = NoValue /\ outbox'[e].locked_by # NoValue) =>
                   \E w \in Workers :
                       /\ pc[w] = "claiming"
                       /\ pc'[w] # "claiming"
                       /\ e \in Ids(events[w])
                       /\ outbox'[e].locked_by = w
             /\ (outbox[e].locked_by # NoValue /\ outbox'[e].locked_by = NoValue) =>
                   /\ outbox'[e].status \in {"published", "failed"}
                   /\ \E w \in Workers :
                         /\ pc[w] \in {"audit", "audit_mark", "mark"}
                         /\ e \in Ids(events[w]) \ Ids(events'[w])]_vars
    /\ [][\A w \in Workers :
             (pc[w] # "idle" /\ pc'[w] = "idle" /\ crashes' = 0) =>
                 \A e \in Events : outbox'[e].locked_by # w]_vars

\* C27 witness: no crash; one claim took both events, a failed publish and a
\* successful one have been written, the tick is over and no event is locked.
C27_Witness ==
    /\ crashes = 0
    /\ claims = 1
    /\ \A w \in Workers : pc[w] = "idle"
    /\ \E e1, e2 \in Events :
          /\ outbox[e1].status = "failed"
          /\ outbox[e1].attempts = 1
          /\ outbox[e2].status = "published"
    /\ \A e \in Events :
          outbox[e].locked_at_utc = NoTime /\ outbox[e].locked_by = NoValue

\* C25: success status update: the status transaction of a successfully
\* published event leaves it 'published' with last_error, locked_at_utc and
\* locked_by empty and, for a broker event, the MessageProcessing row of its
\* message 'queued', in the same step; and in every reachable state every
\* 'published' event has locked_at_utc and locked_by empty.
C25_SuccessStatusUpdate ==
    /\ [][\A w \in Workers :
             /\ (pc[w] = "mark" /\ pc'[w] # "mark" /\ crashes' = crashes
                            /\ published[w]) =>
                   LET r == Head(events[w])
                   IN /\ outbox'[r.id].status = "published"
                      /\ outbox'[r.id].last_error = NoValue
                      /\ outbox'[r.id].locked_at_utc = NoTime
                      /\ outbox'[r.id].locked_by = NoValue
                      /\ processing'[r.message_id].processing_status = "queued"
             /\ (pc[w] = "audit_mark" /\ pc'[w] # "audit_mark"
                            /\ crashes' = crashes) =>
                   \A i \in 1..Len(events[w]) :
                       (/\ events[w][i].event_type = "http_audit_log"
                        /\ events[w][i].id \in succeeded_ids[w]) =>
                           LET row == outbox'[events[w][i].id]
                           IN /\ row.status = "published"
                              /\ row.last_error = NoValue
                              /\ row.locked_at_utc = NoTime
                              /\ row.locked_by = NoValue]_vars
    /\ [](\A e \in Events :
             outbox[e].status = "published" =>
                 /\ outbox[e].locked_at_utc = NoTime
                 /\ outbox[e].locked_by = NoValue)

\* C23: bulk audit partial failure: the status transaction of the audit
\* events marks 'failed', with available_at_utc moved by the backoff of the
\* event's attempts, exactly the events of the failure map of the bulk
\* response, and 'published' all the others; the failure map and the
\* succeeded ids split the audit events of the batch, and a bulk call that
\* raises puts every event of the chunk in the failure map.
C23_BulkAuditPartialFailure ==
    /\ [][\A w \in Workers :
             /\ (pc[w] = "audit" /\ pc'[w] = "audit_mark") =>
                   LET ids == Ids(audit_events(w))
                   IN /\ failed_by_id'[w] \cup succeeded_ids'[w] = ids
                      /\ failed_by_id'[w] \cap succeeded_ids'[w] = {}
                      /\ \E response \in BulkResponses(ids) :
                            /\ response.raised => failed_by_id'[w] = ids
                            /\ ~response.raised =>
                                 failed_by_id'[w] =
                                     {item.index._id : item \in response.errors}
             /\ (pc[w] = "audit_mark" /\ pc'[w] # "audit_mark"
                            /\ crashes' = crashes) =>
                   \A i \in 1..Len(events[w]) :
                       LET r == events[w][i]
                       IN r.event_type = "http_audit_log" =>
                            IF r.id \in failed_by_id[w]
                            THEN /\ outbox'[r.id].status = "failed"
                                 /\ outbox'[r.id].available_at_utc =
                                        app_now + _compute_backoff_seconds(r.attempts)
                                 /\ outbox'[r.id].last_error # NoValue
                            ELSE /\ outbox'[r.id].status = "published"
                                 /\ outbox'[r.id].last_error = NoValue]_vars
    /\ [](\A w \in Workers :
             /\ pc[w] = "audit_mark" =>
                   /\ failed_by_id[w] \cup succeeded_ids[w] = Ids(audit_events(w))
                   /\ failed_by_id[w] \cap succeeded_ids[w] = {}
             /\ (pc[w] = "audit" /\ ~settings.bypass_elastic_for_tests) =>
                   \A response \in BulkResponses(Ids(audit_events(w))) :
                       response.raised =>
                           _publish_audit_events(Ids(audit_events(w)), response) =
                               [succeeded_ids |-> {},
                                failures |-> Ids(audit_events(w))])

\* C23 witness: a bulk response reported one of two audit events failed; the
\* status transaction has run: that event is failed and in backoff, the
\* other is published.
C23_Witness ==
    /\ claims = 1
    /\ crashes = 0
    /\ \A w \in Workers : pc[w] = "idle"
    /\ \E e1, e2 \in Events :
          /\ outbox[e1].event_type = "http_audit_log"
          /\ outbox[e2].event_type = "http_audit_log"
          /\ outbox[e1].status = "failed"
          /\ outbox[e1].attempts = 1
          /\ outbox[e1].available_at_utc = app_now + _compute_backoff_seconds(1)
          /\ outbox[e2].status = "published"

\* C24: partition by event type: the bulk-index steps of a dispatcher handle
\* only http_audit_log events, put nothing on the broker and change no
\* MessageProcessing row; the publish and status steps of the broker path
\* handle only events of other types, and no such event is ever in the
\* succeeded ids or the failure map of a bulk request.
C24_PartitionByEventType ==
    /\ [][\A w \in Workers :
             /\ (pc[w] \in {"audit", "audit_mark"} /\ pc'[w] # pc[w]
                            /\ crashes' = crashes) =>
                   /\ broker' = broker
                   /\ processing' = processing
                   /\ \A e \in Ids(events[w]) \ Ids(events'[w]) :
                         outbox[e].event_type = "http_audit_log"
                   /\ \A e \in Events :
                         outbox'[e] # outbox[e] =>
                             outbox[e].event_type = "http_audit_log"
             /\ (pc[w] = "publish" /\ pc'[w] = "mark") =>
                   /\ outbox[Head(events[w]).id].event_type # "http_audit_log"
                   /\ broker' # broker =>
                         broker' = Append(broker, Head(events[w]).message_id)
             /\ (pc[w] = "mark" /\ pc'[w] # "mark" /\ crashes' = crashes) =>
                   /\ outbox[Head(events[w]).id].event_type # "http_audit_log"
                   /\ \A e \in Events :
                         outbox'[e] # outbox[e] => e = Head(events[w]).id]_vars
    /\ [][broker' # broker =>
             \E w \in Workers : pc[w] = "publish" /\ pc'[w] = "mark"]_vars
    /\ [](\A w \in Workers :
             /\ \A e \in succeeded_ids[w] \cup failed_by_id[w] :
                   outbox[e].event_type = "http_audit_log"
             /\ pc[w] \in {"publish", "mark"} =>
                   \A i \in 1..Len(events[w]) :
                       events[w][i].event_type # "http_audit_log")

\* C24 witness: one claim took an audit event and a broker event; the audit
\* event was bulk-indexed and the other one published to the broker.
C24_Witness ==
    /\ claims = 1
    /\ crashes = 0
    /\ ~settings.bypass_elastic_for_tests
    /\ \A w \in Workers : pc[w] = "idle"
    /\ \E e1, e2 \in Events :
          /\ outbox[e1].event_type = "http_audit_log"
          /\ outbox[e1].status = "published"
          /\ outbox[e2].event_type # "http_audit_log"
          /\ outbox[e2].status = "published"
          /\ broker = <<outbox[e2].message_id>>
          /\ processing[outbox[e2].message_id].processing_status = "queued"

\* C28: dedup within a batch: when execute has walked the items, an item is
\* scheduled for creation iff no committed message has its correlation_id
\* and no earlier item of the batch has it; the number scheduled is the
\* number of distinct correlation_ids of the batch that no message has; an
\* item that came without a correlation_id (absent, blank or null) has one
\* that no other item and no message has, and is scheduled; and the commit
\* adds exactly one message per scheduled item.
C28_DedupWithinBatch ==
    [][\A r \in Requests :
          /\ (requests[r].pc = "idle" /\ requests'[r].pc \in {"insert_messages", "commit"}) =>
                LET q == requests'[r]
                    n == Len(q.items)
                IN /\ \A i \in 1..n :
                         i \in q.to_create <=>
                             /\ q.items[i] \notin CommittedCorrelations
                             /\ \A j \in 1..(i - 1) : q.items[j] # q.items[i]
                   /\ Cardinality(q.to_create) =
                         Cardinality({q.items[i] : i \in 1..n} \ CommittedCorrelations)
                   /\ \A i \in 1..n :
                         q.raw_correlation[i] \in {"", "null"} =>
                             /\ i \in q.to_create
                             /\ q.items[i] \notin CommittedCorrelations
                             /\ \A j \in 1..n : j # i => q.items[j] # q.items[i]
          /\ (requests[r].pc = "commit" /\ requests'[r].pc = "done") =>
                /\ DOMAIN messages' \ DOMAIN messages =
                       {MessageIdOf(r, i) : i \in requests[r].to_create}
                /\ \A i \in requests[r].to_create :
                       messages'[MessageIdOf(r, i)] = requests[r].items[i]]_vars

\* C29: conflict-tolerant user upsert: no fast-path request ends with the
\* unique violation on external_user_key, that is, with an IntegrityError
\* raised by its inserts while a user it took for missing has a committed
\* row and none of the correlation_ids it creates has a committed message.
C29_ConflictTolerantUserUpsert ==
    \A r \in Requests :
        ~(/\ requests[r].pc = "failed"
          /\ requests[r].raised_at = "insert_messages"
          /\ requests[r].error = "IntegrityError"
          /\ requests[r].missing_users \cap users # {}
          /\ \A i \in requests[r].to_create :
                requests[r].items[i] \notin CommittedCorrelations)

\* C30: consumer drop: every step of the callback on a delivery that is not
\* an object, names no supported event or has no correlationId leads to the
\* basic_ack and from there to the idle callback; the delivery is not handed
\* out again, never reaches mark_processing or the processing of a message,
\* no message is marked 'processing' or 'processed', and no message, outbox
\* or user row and no queue entry is written.
C30_ConsumerDrop ==
    [][(/\ consumer' # consumer
        /\ \/ consumer.pc \in {"parse_failed", "drop_ack"}
           \/ consumer.pc = "idle" /\ consumer'.envelope.body # NoValue) =>
            /\ consumer.pc = "idle" => consumer'.pc \in {"parse_failed", "drop_ack"}
            /\ consumer.pc = "parse_failed" => consumer'.pc = "drop_ack"
            /\ consumer.pc = "drop_ack" => consumer' = IdleConsumer
            /\ consumer'.redelivered => consumer.redelivered
            /\ \A m \in DOMAIN processing :
                  processing'[m] # processing[m] =>
                      processing'[m].processing_status \notin
                          {PROCESSING_STATUS_PROCESSING, PROCESSING_STATUS_PROCESSED}
            /\ messages' = messages
            /\ outbox' = outbox
            /\ users' = users
            /\ broker' = broker]_vars

\* C30 as it holds: the same, except that the except branch of the parse,
\* when the delivery has a correlation_id property, may fail to record the
\* failure: then nothing is written, no ack is sent and the delivery is
\* handed out again; and the only row such a delivery changes is the
\* MessageProcessing row of the message with that correlation_id, which
\* becomes 'failed' with stage 'parse'.
C30_ConsumerDropUnlessRecordingRaises ==
    [][(/\ consumer' # consumer
        /\ \/ consumer.pc \in {"parse_failed", "drop_ack"}
           \/ consumer.pc = "idle" /\ consumer'.envelope.body # NoValue) =>
            /\ consumer.pc = "idle" => consumer'.pc \in {"parse_failed", "drop_ack"}
            /\ consumer.pc = "parse_failed" =>
                  \/ consumer'.pc = "drop_ack" /\ consumer'.redelivered = consumer.redelivered
                  \/ /\ consumer'.pc = "parse_failed"
                     /\ consumer'.redelivered
                     /\ consumer.envelope.correlation_id # ""
                     /\ processing' = processing
            /\ consumer.pc = "drop_ack" => consumer' = IdleConsumer
            /\ \A m \in DOMAIN processing :
                  processing'[m] # processing[m] =>
                      /\ consumer.pc = "parse_failed"
                      /\ messages[m] = consumer.envelope.correlation_id
                      /\ processing'[m].processing_success = "False"
                      /\ processing'[m].processing_status =
                            PROCESSING_STATUS_FAILED
                      /\ processing'[m].failure_stage = "parse"
            /\ messages' = messages
            /\ outbox' = outbox
            /\ users' = users
            /\ broker' = broker]_vars

\* C30 witness: an object with an unsupported eventName came with the
\* correlation_id property of a message; the parse failure is recorded on
\* that message and the callback is about to send the ack.
C30_Witness ==
    /\ consumer.pc = "drop_ack"
    /\ consumer.envelope.body = "object"
    /\ consumer.envelope.eventName = "other"
    /\ consumer.envelope.correlationId = "c1"
    /\ consumer.committed = PROCESSING_STATUS_FAILED
    /\ ~consumer.redelivered
    /\ \E m \in DOMAIN processing :
          /\ messages[m] = consumer.envelope.correlation_id
          /\ processing[m].failure_stage = "parse"

C22_SumLaw ==
    \A k \in 1..Len(analysis.results) :
        LET d == analysis.results[k].sentiment_distribution
            sum == d.positive + d.negative + d.neutral
            classified == DOMAIN analysis.results[k].age_seconds
        IN /\ d.positive >= 0 /\ d.negative >= 0 /\ d.neutral >= 0
           /\ IF classified = {}
              THEN sum = 0
              ELSE sum >= 10000 - 1 /\ sum <= 10000 + 1

\* C22 witness: a call returned 16.67, 16.67 and 66.67, which add up to
\* 100.01.
C22_Witness ==
    \E k \in 1..Len(analysis.results) :
        analysis.results[k].sentiment_distribution =
            [positive |-> 1667, negative |-> 1667, neutral |-> 6667]

\* C38: attempts accounting: a row ingestion writes has attempts 0; the
\* commit of a claim raises attempts of each event of its batch by exactly
\* one; no other step changes attempts; attempts never decreases.
C38_AttemptsAccounting ==
    /\ [][\A e \in Events :
             /\ outbox'[e].attempts >= outbox[e].attempts
             /\ \A w \in Workers :
                   (/\ pc[w] = "claiming"
                    /\ pc'[w] # "claiming"
                    /\ crashes' = crashes
                    /\ e \in Ids(events[w])) =>
                       outbox'[e].attempts = outbox[e].attempts + 1
             /\ outbox'[e].attempts # outbox[e].attempts =>
                   \E w \in Workers :
                       /\ pc[w] = "claiming"
                       /\ pc'[w] # "claiming"
                       /\ e \in Ids(events[w])]_vars
    /\ [][\A e \in DOMAIN outbox' \ DOMAIN outbox : outbox'[e].attempts = 0]_vars

\* C37: at-most-once publication: no outbox event is handed to the broker
\* twice; the queue the consumer reads never holds two envelopes of the
\* same message.
C37_AtMostOncePublication ==
    \A i, j \in 1..Len(broker) : i # j => broker[i] # broker[j]

\* C31: consumer step order: the outputs are committed in the first step of
\* the try block, the document is indexed in the step after it, and
\* 'processed' is committed, with elastic_name and elastic_index_name, in
\* the step after that; hence a message that is 'processed' has its output
\* rows and, unless indexing is bypassed, a document of its correlation id
\* in the index.
C31_ConsumerStepOrder ==
    /\ [][/\ outputs' # outputs => consumer.pc = "process" /\ consumer'.pc = "index"
          /\ search_index' # search_index =>
                consumer.pc = "index" /\ consumer'.pc = "finalize"
          /\ \A m \in DOMAIN processing :
                (/\ processing'[m] # processing[m]
                 /\ processing'[m].processing_status = PROCESSING_STATUS_PROCESSED) =>
                    /\ consumer.pc = "finalize"
                    /\ processing'[m].processing_success = "True"
                    /\ processing'[m].elastic_name = elasticsearch_index_prefix
                    /\ processing'[m].elastic_index_name =
                          IF settings.bypass_elastic_for_tests THEN NoValue
                          ELSE elasticsearch_index_prefix \o "-day"]_vars
    /\ [](\A m \in DOMAIN processing :
             processing[m].processing_status = PROCESSING_STATUS_PROCESSED =>
                /\ m \in DOMAIN outputs
                /\ \/ settings.bypass_elastic_for_tests
                   \/ \E d \in search_index :
                         d.document.correlationId = messages[m])

\* C40: no indexing for unknown messages: while the callback handles an
\* envelope whose correlationId no Message row has, no document is indexed
\* and no output row is written, and nothing is put back on the queue,
\* whether or not the envelope carries a messageId.
C40_NoIndexingForUnknownMessages ==
    [][(/\ consumer' # consumer
        /\ LET e == IF consumer.pc = "idle" THEN consumer'.envelope
                    ELSE consumer.envelope
           IN /\ e.correlationId \notin {NoValue, ""}
              /\ \A m \in DOMAIN messages : messages[m] # e.correlationId) =>
            /\ search_index' = search_index
            /\ outputs' = outputs
            /\ processing' = processing
            /\ broker' = broker]_vars

\* C39: consumer idempotence under redelivery: when the output rows of a
\* message are those one handling of an envelope leaves, handling the same
\* envelope again leaves them as they are; every message with output rows
\* has one sentiment row, one flags row, one anomaly row, one influence item
\* for each item of the payload that has a user_id and one topic link for
\* each distinct topic; and a handling in which nothing raises ends with
\* status 'processed'.
C39_ConsumerIdempotence ==
    /\ [][(/\ consumer.pc = "process"
           /\ consumer'.pc = "index"
           /\ consumer.delivery[1] \in DOMAIN outputs
           /\ outputs[consumer.delivery[1]] =
                 persist_normalized_outputs(<< >>, DOMAIN messages,
                     consumer.delivery[1],
                     _normalized_payload_from_event(
                         IF consumer.envelope.correlationId = NoValue
                         THEN ToString(consumer.delivery[1])
                         ELSE consumer.envelope.correlationId))[consumer.delivery[1]]) =>
             outputs' = outputs]_vars
    /\ [](\A m \in DOMAIN outputs :
             /\ Len(outputs[m].sentiment) = 1
             /\ Len(outputs[m].flags) = 1
             /\ Len(outputs[m].anomaly) = 1
             /\ outputs[m].influence = <<"u1", "u1">>
             /\ outputs[m].topics = {"t1", "t2"})
    /\ [][(/\ consumer.pc = "finalize"
           /\ consumer'.pc = "ack"
           /\ consumer'.committed # PROCESSING_STATUS_FAILED
           /\ consumer.envelope.correlationId = NoValue) =>
             /\ processing'[consumer.delivery[1]].processing_status =
                   PROCESSING_STATUS_PROCESSED
             /\ processing'[consumer.delivery[1]].processing_success = "True"]_vars

\* The envelope of message 1 is handled a second time, after a handling
\* that ended 'processed', and its outputs step has run again.
C39_Witness ==
    /\ consumer.pc = "index"
    /\ consumer.envelope.correlationId = NoValue
    /\ consumer.delivery = <<FirstEvent>>
    /\ processing[FirstEvent].elastic_name # NoValue
    /\ FirstEvent \in DOMAIN outputs
    /\ outputs[FirstEvent].sentiment = <<"1">>

\* C32: partial status updates: every step that changes a message_processing
\* row is one of the status calls and leaves the columns that call does not
\* pass as they were: mark_queued leaves elastic_name and elastic_index_name,
\* mark_processed leaves queue_messaging, mark_processing and the failure
\* calls leave all three; a column passed as None becomes null; and a call
\* for a message without a row creates none and changes none.
C32_PartialStatusUpdates ==
    /\ [][\A m \in DOMAIN processing :
            LET old == processing[m]
                new == processing'[m]
            IN new # old =>
                \/ /\ new.processing_status = PROCESSING_STATUS_QUEUED
                   /\ new.processing_success = NoValue
                   /\ new.queue_messaging = queue_of_analyze
                   /\ new.failure_stage = NoValue
                   /\ new.failed_reason = NoValue
                   /\ new.elastic_name = old.elastic_name
                   /\ new.elastic_index_name = old.elastic_index_name
                \/ /\ new.processing_status = PROCESSING_STATUS_PROCESSING
                   /\ new.processing_success = NoValue
                   /\ new.failure_stage = NoValue
                   /\ new.failed_reason = NoValue
                   /\ new.queue_messaging = old.queue_messaging
                   /\ new.elastic_name = old.elastic_name
                   /\ new.elastic_index_name = old.elastic_index_name
                \/ /\ new.processing_status = PROCESSING_STATUS_PROCESSED
                   /\ new.processing_success = "True"
                   /\ new.failure_stage = NoValue
                   /\ new.failed_reason = NoValue
                   /\ new.elastic_name = elasticsearch_index_prefix
                   /\ new.elastic_index_name \in
                         {NoValue, elasticsearch_index_prefix \o "-day"}
                   /\ new.queue_messaging = old.queue_messaging
                \/ /\ new.processing_status = PROCESSING_STATUS_FAILED
                   /\ new.processing_success = "False"
                   /\ new.failure_stage \in {"rabbit", "consumer"}
                   /\ new.failed_reason # NoValue
                   /\ new.queue_messaging = old.queue_messaging
                   /\ new.elastic_name = old.elastic_name
                   /\ new.elastic_index_name = old.elastic_index_name]_vars
    /\ [][DOMAIN processing' = DOMAIN processing]_vars
    /\ [][(/\ consumer' # consumer
           /\ LET e == IF consumer.pc = "idle" THEN consumer'.envelope
                       ELSE consumer.envelope
              IN /\ e.correlationId # NoValue
                 /\ \A m \in DOMAIN messages : messages[m] # e.correlationId) =>
             processing' = processing]_vars

\* mark_queued has run on a row that mark_processed wrote before: the row is
\* 'queued' and still names the index of its document.
C32_Witness ==
    /\ processing[FirstEvent].processing_status = PROCESSING_STATUS_QUEUED
    /\ processing[FirstEvent].queue_messaging = queue_of_analyze
    /\ processing[FirstEvent].elastic_name = elasticsearch_index_prefix
    /\ processing[FirstEvent].elastic_index_name = elasticsearch_index_prefix \o "-day"

\* C33: negation parity: a polar token is flipped exactly when the number of
\* negation tokens among the three tokens before it, hashtags not counted,
\* is odd.  The label of a content with one polar token is the sign this
\* gives; without intensifiers and outside the employee rule the score is
\* the number of tokens left positive minus the number left negative, over
\* the number of polar tokens; 'nao nao gostei' is positive.
C33_NegationParity ==
    analysis.pc = "classified" =>
        LET tokens == SelectSeq(analysis.messages, LAMBDA t : t # "#tag")
            result == analysis.results[1].sentiment
            polar == {i \in 1..Len(tokens) : tokens[i] \in {"gostei", "ruim"}}
            marks(i) == Cardinality({j \in 1..Len(tokens) :
                            tokens[j] = "nao" /\ j < i /\ i - j <= 3})
            positive == {i \in polar : (tokens[i] = "gostei") = (marks(i) % 2 = 0)}
        IN /\ analysis.messages = <<"nao", "nao", "gostei">> =>
                 result.sentiment_label = "positive"
           /\ Cardinality(polar) = 1 =>
                 result.sentiment_label =
                    IF positive # {} THEN "positive" ELSE "negative"
           /\ (/\ ~analysis.results[1].is_employee
               /\ \A i \in 1..Len(tokens) : tokens[i] # "muito") =>
                 /\ result.score_sum =
                       2 * Cardinality(positive) - 2 * Cardinality(polar \ positive)
                 /\ result.polar_count = Cardinality(polar)

\* 'nao nao gostei' was classified, and positive.
C33_Witness ==
    /\ analysis.pc = "classified"
    /\ analysis.messages = <<"nao", "nao", "gostei">>
    /\ analysis.results[1].sentiment.sentiment_label = "positive"
    /\ analysis.results[1].sentiment.polar_count = 1

\* C34: intensifier scope: an intensifier weighs 1.5 on the first polar
\* token after it, however many tokens that are not polar lie between, and
\* on no other; an intensifier is not polar itself, so a content without a
\* polar token has polar_count 0 and is neutral with score 0.
C34_IntensifierScope ==
    analysis.pc = "classified" =>
        LET tokens == SelectSeq(analysis.messages, LAMBDA t : t # "#tag")
            result == analysis.results[1].sentiment
            polar == {i \in 1..Len(tokens) : tokens[i] \in {"gostei", "ruim"}}
            intensified == {i \in polar :
                \E j \in 1..(i - 1) :
                    /\ tokens[j] = "muito"
                    /\ \A k \in (j + 1)..(i - 1) : k \notin polar}
            weight(of) == 3 * Cardinality(of \cap intensified)
                            + 2 * Cardinality(of \ intensified)
        IN /\ result.polar_count = Cardinality(polar)
           /\ polar = {} =>
                 result.sentiment_label = "neutral" /\ result.score_sum = 0
           /\ (/\ ~analysis.results[1].is_employee
               /\ \A i \in 1..Len(tokens) : tokens[i] # "nao") =>
                 result.score_sum =
                    weight({i \in polar : tokens[i] = "gostei"})
                    - weight({i \in polar : tokens[i] = "ruim"})

\* 'muito filme gostei gostei' was scored: the first polar token after the
\* intensifier weighs 1.5, the one after it 1.
C34_Witness ==
    /\ analysis.pc = "classified"
    /\ analysis.messages = <<"muito", "filme", "gostei", "gostei">>
    /\ ~analysis.results[1].is_employee
    /\ analysis.results[1].sentiment.score_sum = 5
    /\ analysis.results[1].sentiment.polar_count = 2

\* C35: anomaly precedence: 'burst' when some user has more than 10
\* messages within 5 minutes; else 'alternation' when some user has at
\* least 10 polar messages that alternate strictly in timestamp order; else
\* 'synchronized_posting' when there are at least 3 messages at most 2
\* seconds apart; else nothing; anomaly_type is non-null exactly when
\* anomaly_detected.
C35_AnomalyPrecedence ==
    analysis.pc = "detected" =>
        LET feed == analysis.messages
            result == analysis.results[1]
            n == Len(feed)
            of(u) == {i \in 1..n : feed[i].user_id = u}
            polar(u) == {i \in of(u) :
                            feed[i].sentiment_label \in {"positive", "negative"}}
            before(i, j) == \/ feed[i].timestamp < feed[j].timestamp
                            \/ feed[i].timestamp = feed[j].timestamp /\ i < j
            burst == \E first \in 1..n :
                        Cardinality({j \in of(feed[first].user_id) :
                            /\ feed[j].timestamp >= feed[first].timestamp
                            /\ feed[j].timestamp <= feed[first].timestamp + 300}) > 10
            alternation ==
                \E u \in {"user_a", "user_b"} :
                    /\ Cardinality(polar(u)) >= 10
                    /\ \A i, j \in polar(u) :
                          (/\ before(i, j)
                           /\ ~\E k \in polar(u) : before(i, k) /\ before(k, j)) =>
                              feed[i].sentiment_label # feed[j].sentiment_label
            synchronized ==
                /\ n >= 3
                /\ \A i, j \in 1..n : feed[i].timestamp - feed[j].timestamp <= 2
        IN /\ result.anomaly_type =
                 IF burst THEN "burst"
                 ELSE IF alternation THEN "alternation"
                 ELSE IF synchronized THEN "synchronized_posting"
                 ELSE NoValue
           /\ result.anomaly_detected = (result.anomaly_type # NoValue)

\* Ten alternating messages of one user in the same second: alternation is
\* reported, though the messages are synchronized too.
C35_Witness ==
    /\ analysis.pc = "detected"
    /\ Len(analysis.messages) = 10
    /\ \A i, j \in 1..10 :
          analysis.messages[i].timestamp = analysis.messages[j].timestamp
    /\ analysis.results[1].anomaly_type = "alternation"
    /\ analysis.results[1].anomaly_detected

====
